---- MODULE Spec2Model ----
(***************************************************************************)
(* A model of the offline text-analysis engine of twinmind-welcome:        *)
(* SentimentDictionary, ActionPatterns, TopicExtractor and the OfflineNLP  *)
(* orchestrator (processText).                                             *)
(*                                                                         *)
(* Strings are sequences of one-character strings, so that toLowerCase,    *)
(* length, indexOf, includes and the regex replaces of the code are        *)
(* computed and not assumed.                                               *)
(*                                                                         *)
(* JavaScript numbers that carry scores are modelled as exact rationals in *)
(* thousandths (0.8 is 800); a quotient is kept as numerator and           *)
(* denominator until the code rounds it with toFixed(3).                   *)
(***************************************************************************)
EXTENDS Integers, Sequences, FiniteSets, TLC

\* ------------------------------------------------------------------------
\* String helpers (String.prototype methods used by the code)
\* ------------------------------------------------------------------------

UpperChars == <<"A","B","C","D","E","F","G","H","I","J","K","L","M",
                "N","O","P","Q","R","S","T","U","V","W","X","Y","Z">>

LowerChars == <<"a","b","c","d","e","f","g","h","i","j","k","l","m",
                "n","o","p","q","r","s","t","u","v","w","x","y","z">>

\* one character of String.prototype.toLowerCase
lowerChar(c) ==
  IF \E k \in 1..Len(UpperChars) : UpperChars[k] = c
  THEN LowerChars[CHOOSE k \in 1..Len(UpperChars) : UpperChars[k] = c]
  ELSE c

\* String.prototype.toLowerCase
toLowerCase(s) == [k \in 1..Len(s) |-> lowerChar(s[k])]

\* F applied to the value of e: e is evaluated once, before F
With(e, F(_)) == CHOOSE r \in {F(v) : v \in {e}} : TRUE

\* Math.max / Math.min / Math.abs
Max(a, b) == IF a >= b THEN a ELSE b

Min(a, b) == IF a <= b THEN a ELSE b

Abs(a) == IF a < 0 THEN -a ELSE a

\* Number(x.toFixed(3)) of the rational num/den (den > 0), in thousandths when
\* num is in thousandths: the nearest integer, a tie going to the larger
\* magnitude (toFixed rounds the magnitude and keeps the sign).
toFixed(num, den) ==
  LET mag == (2 * Abs(num) + den) \div (2 * den)
  IN  IF num < 0 THEN -mag ELSE mag

\* ------------------------------------------------------------------------
\* SentimentDictionary: the fixed vocabularies
\* ------------------------------------------------------------------------

\* positiveWordsList, OfflineNLP.ts 308-338
positiveWordsList ==
  {
    <<"h","a","p","p","y">>, <<"j","o","y">>, <<"e","x","c","i","t","e","d">>, <<"a","m","a","z","i","n","g">>,
    <<"a","w","e","s","o","m","e">>, <<"f","a","n","t","a","s","t","i","c">>,
    <<"w","o","n","d","e","r","f","u","l">>, <<"g","r","e","a","t">>, <<"e","x","c","e","l","l","e","n","t">>,
    <<"p","e","r","f","e","c","t">>, <<"b","r","i","l","l","i","a","n","t">>,
    <<"o","u","t","s","t","a","n","d","i","n","g">>, <<"s","u","p","e","r","b">>,
    <<"d","e","l","i","g","h","t","e","d">>, <<"t","h","r","i","l","l","e","d">>, <<"e","l","a","t","e","d">>,
    <<"c","h","e","e","r","f","u","l">>, <<"o","p","t","i","m","i","s","t","i","c">>,
    <<"c","o","n","f","i","d","e","n","t">>, <<"p","r","o","u","d">>, <<"s","a","t","i","s","f","i","e","d">>,
    <<"g","r","a","t","e","f","u","l">>, <<"b","l","e","s","s","e","d">>, <<"l","u","c","k","y">>,
    <<"f","o","r","t","u","n","a","t","e">>, <<"s","u","c","c","e","s","s">>, <<"a","c","h","i","e","v","e">>,
    <<"a","c","c","o","m","p","l","i","s","h","e","d">>, <<"c","o","m","p","l","e","t","e">>,
    <<"f","i","n","i","s","h","e","d">>, <<"d","o","n","e">>, <<"w","o","n">>, <<"v","i","c","t","o","r","y">>,
    <<"t","r","i","u","m","p","h">>, <<"b","r","e","a","k","t","h","r","o","u","g","h">>,
    <<"p","r","o","g","r","e","s","s">>, <<"i","m","p","r","o","v","e","m","e","n","t">>,
    <<"a","d","v","a","n","c","e">>, <<"g","r","o","w","t","h">>,
    <<"d","e","v","e","l","o","p","m","e","n","t">>, <<"i","n","n","o","v","a","t","i","o","n">>,
    <<"c","r","e","a","t","i","v","e">>, <<"p","r","o","d","u","c","t","i","v","e">>, <<"l","o","v","e">>,
    <<"f","r","i","e","n","d">>, <<"f","a","m","i","l","y">>, <<"s","u","p","p","o","r","t">>,
    <<"h","e","l","p">>, <<"t","e","a","m">>, <<"t","o","g","e","t","h","e","r">>,
    <<"c","o","n","n","e","c","t","e","d">>, <<"c","l","o","s","e">>, <<"b","o","n","d">>,
    <<"t","r","u","s","t">>, <<"r","e","s","p","e","c","t">>,
    <<"a","p","p","r","e","c","i","a","t","i","o","n">>, <<"k","i","n","d","n","e","s","s">>,
    <<"g","e","n","e","r","o","u","s">>, <<"c","a","r","i","n","g">>,
    <<"c","o","m","p","a","s","s","i","o","n","a","t","e">>,
    <<"u","n","d","e","r","s","t","a","n","d","i","n","g">>, <<"o","p","p","o","r","t","u","n","i","t","y">>,
    <<"p","r","o","m","o","t","i","o","n">>, <<"r","a","i","s","e">>, <<"b","o","n","u","s">>,
    <<"r","e","c","o","g","n","i","t","i","o","n">>, <<"p","r","a","i","s","e">>,
    <<"c","o","m","p","l","i","m","e","n","t">>, <<"r","e","c","o","m","m","e","n","d","a","t","i","o","n">>,
    <<"a","p","p","r","o","v","a","l">>, <<"a","c","c","e","p","t","a","n","c","e">>, <<"h","i","r","e","d">>,
    <<"q","u","a","l","i","f","i","e","d">>, <<"s","k","i","l","l","e","d">>, <<"e","x","p","e","r","t">>,
    <<"p","r","o","f","e","s","s","i","o","n","a","l">>, <<"c","a","p","a","b","l","e">>,
    <<"h","e","a","l","t","h","y">>, <<"e","n","e","r","g","e","t","i","c">>, <<"s","t","r","o","n","g">>,
    <<"f","i","t">>, <<"w","e","l","l">>, <<"b","e","t","t","e","r">>, <<"r","e","c","o","v","e","r","e","d">>,
    <<"r","e","f","r","e","s","h","e","d">>, <<"r","e","l","a","x","e","d">>, <<"c","a","l","m">>,
    <<"p","e","a","c","e","f","u","l">>, <<"c","e","n","t","e","r","e","d">>,
    <<"b","a","l","a","n","c","e","d">>, <<"g","o","o","d">>, <<"n","i","c","e">>, <<"f","i","n","e">>,
    <<"o","k","a","y">>, <<"a","l","r","i","g","h","t">>, <<"p","l","e","a","s","a","n","t">>,
    <<"s","m","o","o","t","h">>, <<"e","a","s","y">>, <<"s","i","m","p","l","e">>, <<"c","l","e","a","r">>,
    <<"b","r","i","g","h","t">>, <<"b","e","a","u","t","i","f","u","l">>, <<"l","o","v","e","l","y">>,
    <<"p","r","e","t","t","y">>, <<"c","o","o","l">>, <<"i","n","t","e","r","e","s","t","i","n","g">>,
    <<"f","u","n">>, <<"e","n","j","o","y","a","b","l","e">>,
    <<"e","n","t","e","r","t","a","i","n","i","n","g">>, <<"e","n","g","a","g","i","n","g">>
  }

\* negativeWordsList, OfflineNLP.ts 341-371
negativeWordsList ==
  {
    <<"s","a","d">>, <<"a","n","g","r","y">>, <<"f","r","u","s","t","r","a","t","e","d">>,
    <<"a","n","n","o","y","e","d">>, <<"u","p","s","e","t">>,
    <<"d","i","s","a","p","p","o","i","n","t","e","d">>, <<"d","e","p","r","e","s","s","e","d">>,
    <<"a","n","x","i","o","u","s">>, <<"w","o","r","r","i","e","d">>, <<"s","t","r","e","s","s","e","d">>,
    <<"o","v","e","r","w","h","e","l","m","e","d">>, <<"e","x","h","a","u","s","t","e","d">>,
    <<"t","i","r","e","d">>, <<"b","o","r","e","d">>, <<"l","o","n","e","l","y">>,
    <<"i","s","o","l","a","t","e","d">>, <<"r","e","j","e","c","t","e","d">>, <<"h","u","r","t">>,
    <<"p","a","i","n">>, <<"s","u","f","f","e","r","i","n","g">>, <<"m","i","s","e","r","a","b","l","e">>,
    <<"t","e","r","r","i","b","l","e">>, <<"a","w","f","u","l">>, <<"h","o","r","r","i","b","l","e">>,
    <<"d","i","s","g","u","s","t","i","n","g">>, <<"p","r","o","b","l","e","m">>, <<"i","s","s","u","e">>,
    <<"t","r","o","u","b","l","e">>, <<"d","i","f","f","i","c","u","l","t","y">>,
    <<"s","t","r","u","g","g","l","e">>, <<"c","h","a","l","l","e","n","g","e">>,
    <<"o","b","s","t","a","c","l","e">>, <<"b","a","r","r","i","e","r">>, <<"s","e","t","b","a","c","k">>,
    <<"f","a","i","l","u","r","e">>, <<"m","i","s","t","a","k","e">>, <<"e","r","r","o","r">>,
    <<"w","r","o","n","g">>, <<"b","a","d">>, <<"w","o","r","s","e">>, <<"w","o","r","s","t">>,
    <<"f","a","i","l","e","d">>, <<"b","r","o","k","e","n">>, <<"d","a","m","a","g","e","d">>,
    <<"f","i","r","e","d">>, <<"l","a","i","d"," ","o","f","f">>, <<"d","e","n","i","e","d">>,
    <<"r","e","f","u","s","e","d">>, <<"c","r","i","t","i","c","i","z","e","d">>,
    <<"c","o","m","p","l","a","i","n","e","d">>, <<"b","l","a","m","e","d">>, <<"a","c","c","u","s","e","d">>,
    <<"p","u","n","i","s","h","e","d">>, <<"p","e","n","a","l","i","z","e","d">>,
    <<"d","e","m","o","t","e","d">>, <<"o","v","e","r","w","o","r","k","e","d">>,
    <<"u","n","d","e","r","p","a","i","d">>, <<"u","n","f","a","i","r">>, <<"b","i","a","s","e","d">>,
    <<"d","i","s","c","r","i","m","i","n","a","t","i","o","n">>, <<"s","i","c","k">>, <<"i","l","l">>,
    <<"d","i","s","e","a","s","e">>, <<"i","n","j","u","r","y">>, <<"a","c","h","e">>, <<"s","o","r","e">>,
    <<"w","e","a","k">>, <<"f","a","t","i","g","u","e">>, <<"n","a","u","s","e","a">>, <<"f","e","v","e","r">>,
    <<"i","n","f","e","c","t","i","o","n">>, <<"a","l","l","e","r","g","i","c">>,
    <<"c","h","r","o","n","i","c">>, <<"a","r","g","u","m","e","n","t">>, <<"f","i","g","h","t">>,
    <<"c","o","n","f","l","i","c","t">>, <<"d","i","s","a","g","r","e","e","m","e","n","t">>,
    <<"b","r","e","a","k","u","p">>, <<"d","i","v","o","r","c","e">>, <<"b","e","t","r","a","y","e","d">>,
    <<"c","h","e","a","t","e","d">>, <<"l","i","e","d">>, <<"d","e","c","e","i","v","e","d">>,
    <<"a","b","a","n","d","o","n","e","d">>, <<"i","g","n","o","r","e","d">>,
    <<"e","x","c","l","u","d","e","d">>, <<"b","u","l","l","i","e","d">>, <<"h","a","r","a","s","s","e","d">>,
    <<"a","b","u","s","e","d">>, <<"t","h","r","e","a","t","e","n","e","d">>, <<"h","a","t","e">>,
    <<"d","i","s","l","i","k","e">>, <<"a","v","o","i","d">>, <<"p","r","e","v","e","n","t">>,
    <<"s","t","o","p">>, <<"q","u","i","t">>, <<"g","i","v","e"," ","u","p">>,
    <<"i","m","p","o","s","s","i","b","l","e">>, <<"h","o","p","e","l","e","s","s">>,
    <<"u","s","e","l","e","s","s">>, <<"w","o","r","t","h","l","e","s","s">>,
    <<"m","e","a","n","i","n","g","l","e","s","s">>, <<"w","a","s","t","e">>, <<"l","o","s","s">>,
    <<"l","o","s","e">>, <<"l","o","s","t">>, <<"m","i","s","s","i","n","g">>, <<"g","o","n","e">>,
    <<"e","m","p","t","y">>, <<"n","o","t","h","i","n","g">>
  }

\* intensifiersList, OfflineNLP.ts 374-381
intensifiersList ==
  {
    <<"v","e","r","y">>, <<"e","x","t","r","e","m","e","l","y">>, <<"i","n","c","r","e","d","i","b","l","y">>,
    <<"a","m","a","z","i","n","g","l","y">>, <<"a","b","s","o","l","u","t","e","l","y">>,
    <<"c","o","m","p","l","e","t","e","l","y">>, <<"t","o","t","a","l","l","y">>,
    <<"e","n","t","i","r","e","l","y">>, <<"p","e","r","f","e","c","t","l","y">>, <<"f","u","l","l","y">>,
    <<"r","e","a","l","l","y">>, <<"t","r","u","l","y">>, <<"g","e","n","u","i","n","e","l","y">>,
    <<"s","e","r","i","o","u","s","l","y">>, <<"d","e","f","i","n","i","t","e","l","y">>,
    <<"c","e","r","t","a","i","n","l","y">>, <<"s","u","r","e","l","y">>, <<"q","u","i","t","e">>,
    <<"r","a","t","h","e","r">>, <<"p","r","e","t","t","y">>, <<"f","a","i","r","l","y">>,
    <<"s","o","m","e","w","h","a","t">>, <<"k","i","n","d"," ","o","f">>, <<"s","u","p","e","r">>,
    <<"m","e","g","a">>, <<"u","l","t","r","a">>, <<"h","i","g","h","l","y">>, <<"d","e","e","p","l","y">>,
    <<"s","t","r","o","n","g","l","y">>, <<"t","r","e","m","e","n","d","o","u","s","l","y">>,
    <<"e","n","o","r","m","o","u","s","l","y">>, <<"i","m","m","e","n","s","e","l","y">>,
    <<"e","x","c","e","p","t","i","o","n","a","l","l","y">>
  }

\* negatorsList, OfflineNLP.ts 384-391
negatorsList ==
  {
    <<"n","o","t">>, <<"n","o">>, <<"n","e","v","e","r">>, <<"n","o","t","h","i","n","g">>,
    <<"n","o","b","o","d","y">>, <<"n","o","n","e">>, <<"n","e","i","t","h","e","r">>,
    <<"w","i","t","h","o","u","t">>, <<"l","a","c","k">>, <<"l","a","c","k","i","n","g">>,
    <<"m","i","s","s","i","n","g">>, <<"a","b","s","e","n","t">>, <<"v","o","i","d">>, <<"d","o","n","'","t">>,
    <<"w","o","n","'","t">>, <<"c","a","n","'","t">>, <<"s","h","o","u","l","d","n","'","t">>,
    <<"w","o","u","l","d","n","'","t">>, <<"c","o","u","l","d","n","'","t">>, <<"i","s","n","'","t">>,
    <<"a","r","e","n","'","t">>, <<"w","a","s","n","'","t">>, <<"w","e","r","e","n","'","t">>,
    <<"h","a","s","n","'","t">>, <<"h","a","v","e","n","'","t">>, <<"h","a","d","n","'","t">>,
    <<"d","o","e","s","n","'","t">>, <<"d","i","d","n","'","t">>, <<"b","a","r","e","l","y">>,
    <<"h","a","r","d","l","y">>, <<"s","c","a","r","c","e","l","y">>, <<"r","e","f","u","s","e">>,
    <<"d","e","n","y">>, <<"r","e","j","e","c","t">>, <<"a","v","o","i","d">>, <<"p","r","e","v","e","n","t">>,
    <<"s","t","o","p">>
  }

\* this.intensifiers, this.negators: built once, never changed afterwards
intensifiers == intensifiersList

negators == negatorsList

\* the tiers of initializeDictionaries (scores in thousandths)
strongPositive ==
  { <<"a","m","a","z","i","n","g">>, <<"a","w","e","s","o","m","e">>,
    <<"f","a","n","t","a","s","t","i","c">>, <<"e","x","c","e","l","l","e","n","t">>,
    <<"p","e","r","f","e","c","t">>, <<"b","r","i","l","l","i","a","n","t">> }

moderatePositive ==
  { <<"g","r","e","a","t">>, <<"g","o","o","d">>, <<"n","i","c","e">>,
    <<"h","a","p","p","y">>, <<"w","o","n","d","e","r","f","u","l">> }

strongNegative ==
  { <<"t","e","r","r","i","b","l","e">>, <<"a","w","f","u","l">>,
    <<"h","o","r","r","i","b","l","e">>, <<"h","a","t","e">>,
    <<"d","i","s","g","u","s","t","i","n","g">> }

moderateNegative ==
  { <<"b","a","d">>, <<"s","a","d">>, <<"a","n","g","r","y">>,
    <<"p","r","o","b","l","e","m">>, <<"w","r","o","n","g">> }

initialPositiveScores ==
  [w \in positiveWordsList |->
     IF w \in strongPositive THEN 800
     ELSE IF w \in moderatePositive THEN 600 ELSE 400]

initialNegativeScores ==
  [w \in negativeWordsList |->
     IF w \in strongNegative THEN -800
     ELSE IF w \in moderateNegative THEN -600 ELSE -400]

\* ------------------------------------------------------------------------
\* ActionPatterns: the texts of the model and the regex engine's matches
\* ------------------------------------------------------------------------

\* the empty text
txtEmpty ==
  <<>>

\* "I need to call John urgently about the deadline tomorrow"
txtCallJohn ==
  <<"I"," ","n","e","e","d"," ","t","o"," ","c","a","l","l"," ","J","o","h","n"," ","u","r","g","e",
    "n","t","l","y"," ","a","b","o","u","t"," ","t","h","e"," ","d","e","a","d","l","i","n","e"," ",
    "t","o","m","o","r","r","o","w">>

\* "Someday I will travel around the world with my friends. Remember to pay rent!"
txtSomeday ==
  <<"S","o","m","e","d","a","y"," ","I"," ","w","i","l","l"," ","t","r","a","v","e","l"," ","a","r",
    "o","u","n","d"," ","t","h","e"," ","w","o","r","l","d"," ","w","i","t","h"," ","m","y"," ","f",
    "r","i","e","n","d","s","."," ","R","e","m","e","m","b","e","r"," ","t","o"," ","p","a","y"," ",
    "r","e","n","t","!">>

\* "call mom today. and then after a very long while of doing nothing at all we CALL MOM TODAY!"
txtCallMom ==
  <<"c","a","l","l"," ","m","o","m"," ","t","o","d","a","y","."," ","a","n","d"," ","t","h","e","n",
    " ","a","f","t","e","r"," ","a"," ","v","e","r","y"," ","l","o","n","g"," ","w","h","i","l","e",
    " ","o","f"," ","d","o","i","n","g"," ","n","o","t","h","i","n","g"," ","a","t"," ","a","l","l",
    " ","w","e"," ","C","A","L","L"," ","M","O","M"," ","T","O","D","A","Y","!">>

\* "call alice"
txtCallAlice ==
  <<"c","a","l","l"," ","a","l","i","c","e">>

\* "call alicia"
txtCallAlicia ==
  <<"c","a","l","l"," ","a","l","i","c","i","a">>

\* "schedule a meeting with Bob today."
txtSchedule ==
  <<"s","c","h","e","d","u","l","e"," ","a"," ","m","e","e","t","i","n","g"," ","w","i","t","h"," ",
    "B","o","b"," ","t","o","d","a","y",".">>

\* "Urgent   we must fix it now!"
txtWeMust ==
  <<"U","r","g","e","n","t"," "," "," ","w","e"," ","m","u","s","t"," ","f","i","x"," ","i","t"," ",
    "n","o","w","!">>

\* "by " followed by 200 times "x" and "day."
txtLongDay ==
  <<"b","y"," ">> \o [k \in 1..200 |-> "x"] \o <<"d","a","y",".">>

\* "by " followed by 194 times "x" and "day.": 200 characters without the full stop
txtDay200 ==
  <<"b","y"," ">> \o [k \in 1..194 |-> "x"] \o <<"d","a","y",".">>

\* "Urgent we must fix it now!"
txtWeMustClean ==
  <<"U","r","g","e","n","t"," ","w","e"," ","m","u","s","t"," ","f","i","x"," ","i","t"," ","n","o",
    "w","!">>

\* "I am not happy with the results, this is terrible"
txtNotHappy ==
  <<"I"," ","a","m"," ","n","o","t"," ","h","a","p","p","y"," ","w","i","t","h"," ","t","h","e"," ",
    "r","e","s","u","l","t","s",","," ","t","h","i","s"," ","i","s"," ","t","e","r","r","i","b","l",
    "e">>

\* "work meeting project deadline" five times, joined by spaces
txtWorkTimes5 ==
  <<"w","o","r","k"," ","m","e","e","t","i","n","g"," ","p","r","o","j","e","c","t"," ","d","e","a",
    "d","l","i","n","e"," ","w","o","r","k"," ","m","e","e","t","i","n","g"," ","p","r","o","j","e",
    "c","t"," ","d","e","a","d","l","i","n","e"," ","w","o","r","k"," ","m","e","e","t","i","n","g",
    " ","p","r","o","j","e","c","t"," ","d","e","a","d","l","i","n","e"," ","w","o","r","k"," ","m",
    "e","e","t","i","n","g"," ","p","r","o","j","e","c","t"," ","d","e","a","d","l","i","n","e"," ",
    "w","o","r","k"," ","m","e","e","t","i","n","g"," ","p","r","o","j","e","c","t"," ","d","e","a",
    "d","l","i","n","e">>

ActionTexts ==
  {txtEmpty, txtCallJohn, txtSomeday, txtCallMom, txtCallAlice, txtCallAlicia, txtSchedule, txtWeMust, txtLongDay, txtDay200}

\* where the built-in regexes of initializePatterns match in the texts of the
\* model: for every index at which a match starts, the index after the match
\* (the engine's result for the regex literal of that name, flags gi)
builtinMatchTable(source, text) ==
  CASE source = "urgent_tasks" /\ text = txtWeMust ->
       <<[start |-> 0, end |-> 28]>>
    [] source = "urgent_tasks" /\ text = txtWeMustClean ->
       <<[start |-> 0, end |-> 26]>>
    [] source = "deadline_tasks" /\ text = txtCallJohn ->
       <<[start |-> 39, end |-> 56]>>
    [] source = "deadline_tasks" /\ text = txtLongDay ->
       <<[start |-> 0, end |-> 207]>>
    [] source = "deadline_tasks" /\ text = txtDay200 ->
       <<[start |-> 0, end |-> 201]>>
    [] source = "meeting_actions" /\ text = txtSchedule ->
       <<[start |-> 0, end |-> 34]>>
    [] source = "communication_actions" /\ text = txtCallJohn ->
       <<[start |-> 10, end |-> 56]>>
    [] source = "communication_actions" /\ text = txtCallMom ->
       <<[start |-> 0, end |-> 15], [start |-> 76, end |-> 91]>>
    [] source = "communication_actions" /\ text = txtCallAlice ->
       <<[start |-> 0, end |-> 10]>>
    [] source = "communication_actions" /\ text = txtCallAlicia ->
       <<[start |-> 0, end |-> 11]>>
    [] source = "someday_actions" /\ text = txtSomeday ->
       <<[start |-> 0, end |-> 55]>>
    [] source = "action_verbs" /\ text = txtSomeday ->
       <<[start |-> 15, end |-> 77]>>
    [] source = "action_verbs" /\ text = txtSchedule ->
       <<[start |-> 0, end |-> 34]>>
    [] source = "action_verbs" /\ text = txtWeMust ->
       <<[start |-> 17, end |-> 28]>>
    [] source = "action_verbs" /\ text = txtWeMustClean ->
       <<[start |-> 15, end |-> 26]>>
    [] source = "work_actions" /\ text = txtCallJohn ->
       <<[start |-> 39, end |-> 56]>>
    [] source = "work_actions" /\ text = txtSchedule ->
       <<[start |-> 11, end |-> 34]>>
    [] source = "work_actions" /\ text = txtWorkTimes5 ->
       <<[start |-> 65, end |-> 149], [start |-> 73, end |-> 149], [start |-> 81, end |-> 149], [start |-> 95, end |-> 149], [start |-> 103, end |-> 149], [start |-> 111, end |-> 149], [start |-> 125, end |-> 149], [start |-> 133, end |-> 149], [start |-> 141, end |-> 149]>>
    [] source = "personal_actions" /\ text = txtSomeday ->
       <<[start |-> 15, end |-> 77], [start |-> 47, end |-> 77]>>
    [] OTHER -> <<>>

\* the same for the tabulated regexes given to addCustomPattern:
\*   rxRemember is /remember to\s+.{1,300}(?:\.|!|$)/gi
\*   rxDream is /someday\s*.{1,60}(?:\.|!|$)/gi
\*   rxWeMust is /we\s+must\s+.{1,40}(?:\.|!|$)/gi
\*   rxNoGlobal is /call\s+\w+/i
customMatchTable(source, text) ==
  CASE source = "rxRemember" /\ text = txtSomeday ->
       <<[start |-> 56, end |-> 77]>>
    [] source = "rxDream" /\ text = txtSomeday ->
       <<[start |-> 0, end |-> 55]>>
    [] source = "rxWeMust" /\ text = txtWeMust ->
       <<[start |-> 9, end |-> 28]>>
    [] source = "rxWeMust" /\ text = txtWeMustClean ->
       <<[start |-> 7, end |-> 26]>>
    [] source = "rxNoGlobal" /\ text = txtCallJohn ->
       <<[start |-> 10, end |-> 19]>>
    [] source = "rxNoGlobal" /\ text = txtCallMom ->
       <<[start |-> 0, end |-> 8], [start |-> 76, end |-> 84]>>
    [] source = "rxNoGlobal" /\ text = txtCallAlice ->
       <<[start |-> 0, end |-> 10]>>
    [] source = "rxNoGlobal" /\ text = txtCallAlicia ->
       <<[start |-> 0, end |-> 11]>>
    [] OTHER -> <<>>

\* ------------------------------------------------------------------------
\* TopicExtractor: the fixed dictionaries
\* ------------------------------------------------------------------------

\* stopWordsList of initializeStopWords
stopWordsList ==
  {
    <<"a">>, <<"a","n">>, <<"t","h","e">>, <<"t","h","i","s">>, <<"t","h","a","t">>, <<"t","h","e","s","e">>,
    <<"t","h","o","s","e">>, <<"m","y">>, <<"y","o","u","r">>, <<"h","i","s">>, <<"h","e","r">>,
    <<"i","t","s">>, <<"o","u","r">>, <<"t","h","e","i","r">>, <<"i">>, <<"m","e">>, <<"y","o","u">>,
    <<"h","e">>, <<"h","i","m">>, <<"s","h","e">>, <<"i","t">>, <<"w","e">>, <<"u","s">>, <<"t","h","e","y">>,
    <<"t","h","e","m">>, <<"m","y","s","e","l","f">>, <<"y","o","u","r","s","e","l","f">>, <<"i","n">>,
    <<"o","n">>, <<"a","t">>, <<"b","y">>, <<"f","o","r">>, <<"w","i","t","h">>, <<"a","b","o","u","t">>,
    <<"a","g","a","i","n","s","t">>, <<"b","e","t","w","e","e","n">>, <<"i","n","t","o">>,
    <<"t","h","r","o","u","g","h">>, <<"d","u","r","i","n","g">>, <<"b","e","f","o","r","e">>,
    <<"a","f","t","e","r">>, <<"a","b","o","v","e">>, <<"b","e","l","o","w">>, <<"u","p">>,
    <<"d","o","w","n">>, <<"o","u","t">>, <<"o","f","f">>, <<"o","v","e","r">>, <<"u","n","d","e","r">>,
    <<"a","g","a","i","n">>, <<"f","u","r","t","h","e","r">>, <<"a","n","d">>, <<"o","r">>, <<"b","u","t">>,
    <<"i","f">>, <<"t","h","e","n">>, <<"b","e","c","a","u","s","e">>, <<"a","s">>, <<"u","n","t","i","l">>,
    <<"w","h","i","l","e">>, <<"o","f">>, <<"t","o">>, <<"f","r","o","m">>, <<"s","i","n","c","e">>,
    <<"i","s">>, <<"a","m">>, <<"a","r","e">>, <<"w","a","s">>, <<"w","e","r","e">>, <<"b","e">>,
    <<"b","e","e","n">>, <<"b","e","i","n","g">>, <<"h","a","v","e">>, <<"h","a","s">>, <<"h","a","d">>,
    <<"h","a","v","i","n","g">>, <<"d","o">>, <<"d","o","e","s">>, <<"d","i","d">>, <<"d","o","i","n","g">>,
    <<"w","i","l","l">>, <<"w","o","u","l","d">>, <<"c","o","u","l","d">>, <<"s","h","o","u","l","d">>,
    <<"m","a","y">>, <<"m","i","g","h","t">>, <<"m","u","s","t">>, <<"c","a","n">>, <<"s","h","a","l","l">>,
    <<"v","e","r","y">>, <<"r","e","a","l","l","y">>, <<"q","u","i","t","e">>, <<"r","a","t","h","e","r">>,
    <<"j","u","s","t">>, <<"o","n","l","y">>, <<"a","l","s","o">>, <<"t","o","o">>, <<"s","o">>,
    <<"n","o","w">>, <<"h","e","r","e">>, <<"t","h","e","r","e">>, <<"w","h","e","n">>,
    <<"w","h","e","r","e">>, <<"w","h","y">>, <<"h","o","w">>, <<"a","l","l">>, <<"a","n","y">>,
    <<"b","o","t","h">>, <<"e","a","c","h">>, <<"f","e","w">>, <<"m","o","r","e">>, <<"m","o","s","t">>,
    <<"o","t","h","e","r">>, <<"s","o","m","e">>, <<"s","u","c","h">>, <<"n","o">>, <<"n","o","r">>,
    <<"n","o","t">>, <<"o","w","n">>, <<"s","a","m","e">>, <<"t","h","a","n">>, <<"w","e","l","l">>,
    <<"t","o","d","a","y">>, <<"t","o","m","o","r","r","o","w">>, <<"y","e","s","t","e","r","d","a","y">>,
    <<"a","l","w","a","y","s">>, <<"n","e","v","e","r">>, <<"s","o","m","e","t","i","m","e","s">>,
    <<"o","f","t","e","n">>, <<"u","s","u","a","l","l","y">>, <<"m","a","y","b","e">>,
    <<"p","e","r","h","a","p","s">>, <<"p","r","o","b","a","b","l","y">>,
    <<"d","e","f","i","n","i","t","e","l","y">>, <<"c","e","r","t","a","i","n","l","y">>,
    <<"s","u","r","e","l","y">>
  }

\* the keywords of category 'work'
categoryWords_work ==
  <<
    <<"w","o","r","k">>, <<"j","o","b">>, <<"c","a","r","e","e","r">>, <<"o","f","f","i","c","e">>,
    <<"m","e","e","t","i","n","g">>, <<"p","r","o","j","e","c","t">>, <<"t","a","s","k">>,
    <<"d","e","a","d","l","i","n","e">>, <<"t","e","a","m">>, <<"m","a","n","a","g","e","r">>,
    <<"b","o","s","s">>, <<"c","o","l","l","e","a","g","u","e">>, <<"c","l","i","e","n","t">>,
    <<"c","u","s","t","o","m","e","r">>, <<"p","r","e","s","e","n","t","a","t","i","o","n">>,
    <<"r","e","p","o","r","t">>, <<"p","r","o","p","o","s","a","l">>, <<"b","u","d","g","e","t">>,
    <<"s","t","r","a","t","e","g","y">>, <<"p","l","a","n","n","i","n","g">>,
    <<"d","e","v","e","l","o","p","m","e","n","t">>, <<"b","u","s","i","n","e","s","s">>,
    <<"c","o","m","p","a","n","y">>, <<"o","r","g","a","n","i","z","a","t","i","o","n">>,
    <<"d","e","p","a","r","t","m","e","n","t">>, <<"p","o","s","i","t","i","o","n">>, <<"r","o","l","e">>,
    <<"r","e","s","p","o","n","s","i","b","i","l","i","t","y">>, <<"s","k","i","l","l">>,
    <<"e","x","p","e","r","i","e","n","c","e">>, <<"t","r","a","i","n","i","n","g">>,
    <<"c","o","n","f","e","r","e","n","c","e">>, <<"i","n","t","e","r","v","i","e","w">>,
    <<"p","r","o","m","o","t","i","o","n">>, <<"r","a","i","s","e">>, <<"b","o","n","u","s">>,
    <<"p","e","r","f","o","r","m","a","n","c","e">>, <<"r","e","v","i","e","w">>,
    <<"f","e","e","d","b","a","c","k">>, <<"g","o","a","l">>, <<"o","b","j","e","c","t","i","v","e">>,
    <<"t","a","r","g","e","t">>, <<"a","c","h","i","e","v","e","m","e","n","t">>,
    <<"s","u","c","c","e","s","s">>, <<"f","a","i","l","u","r","e">>,
    <<"c","h","a","l","l","e","n","g","e">>, <<"o","p","p","o","r","t","u","n","i","t","y">>,
    <<"e","m","a","i","l">>, <<"p","h","o","n","e">>, <<"c","a","l","l">>,
    <<"c","o","m","m","u","n","i","c","a","t","i","o","n">>,
    <<"c","o","l","l","a","b","o","r","a","t","i","o","n">>, <<"t","e","a","m","w","o","r","k">>,
    <<"l","e","a","d","e","r","s","h","i","p">>, <<"m","a","n","a","g","e","m","e","n","t">>,
    <<"a","d","m","i","n","i","s","t","r","a","t","i","o","n">>,
    <<"c","o","o","r","d","i","n","a","t","i","o","n">>, <<"s","u","p","e","r","v","i","s","i","o","n">>,
    <<"d","e","l","e","g","a","t","i","o","n">>, <<"e","x","e","c","u","t","i","o","n">>
  >>

\* the keywords of category 'health'
categoryWords_health ==
  <<
    <<"h","e","a","l","t","h">>, <<"w","e","l","l","n","e","s","s">>, <<"f","i","t","n","e","s","s">>,
    <<"e","x","e","r","c","i","s","e">>, <<"w","o","r","k","o","u","t">>, <<"g","y","m">>,
    <<"r","u","n","n","i","n","g">>, <<"w","a","l","k","i","n","g">>, <<"s","p","o","r","t">>,
    <<"y","o","g","a">>, <<"m","e","d","i","t","a","t","i","o","n">>, <<"d","i","e","t">>,
    <<"n","u","t","r","i","t","i","o","n">>, <<"f","o","o","d">>, <<"e","a","t","i","n","g">>,
    <<"m","e","a","l">>, <<"c","o","o","k","i","n","g">>, <<"r","e","c","i","p","e">>,
    <<"d","o","c","t","o","r">>, <<"m","e","d","i","c","a","l">>,
    <<"a","p","p","o","i","n","t","m","e","n","t">>, <<"c","h","e","c","k","u","p">>,
    <<"t","r","e","a","t","m","e","n","t">>, <<"m","e","d","i","c","i","n","e">>,
    <<"m","e","d","i","c","a","t","i","o","n">>, <<"h","o","s","p","i","t","a","l">>,
    <<"c","l","i","n","i","c">>, <<"t","h","e","r","a","p","y">>,
    <<"c","o","u","n","s","e","l","i","n","g">>, <<"m","e","n","t","a","l">>,
    <<"e","m","o","t","i","o","n","a","l">>, <<"s","t","r","e","s","s">>, <<"a","n","x","i","e","t","y">>,
    <<"d","e","p","r","e","s","s","i","o","n">>, <<"m","o","o","d">>, <<"f","e","e","l","i","n","g">>,
    <<"e","n","e","r","g","y">>, <<"s","l","e","e","p">>, <<"r","e","s","t">>,
    <<"r","e","l","a","x","a","t","i","o","n">>, <<"r","e","c","o","v","e","r","y">>,
    <<"i","n","j","u","r","y">>, <<"p","a","i","n">>, <<"a","c","h","e">>, <<"s","i","c","k">>,
    <<"i","l","l","n","e","s","s">>, <<"d","i","s","e","a","s","e">>,
    <<"c","o","n","d","i","t","i","o","n">>, <<"s","y","m","p","t","o","m">>, <<"w","e","i","g","h","t">>,
    <<"m","u","s","c","l","e">>, <<"s","t","r","e","n","g","t","h">>, <<"c","a","r","d","i","o">>,
    <<"f","l","e","x","i","b","i","l","i","t","y">>, <<"b","a","l","a","n","c","e">>,
    <<"c","o","o","r","d","i","n","a","t","i","o","n">>, <<"b","r","e","a","t","h","i","n","g">>,
    <<"h","e","a","r","t">>, <<"b","l","o","o","d">>, <<"p","r","e","s","s","u","r","e">>,
    <<"c","h","o","l","e","s","t","e","r","o","l">>, <<"d","i","a","b","e","t","e","s">>,
    <<"a","l","l","e","r","g","y">>
  >>

\* the keywords of category 'relationships'
categoryWords_relationships ==
  <<
    <<"f","a","m","i","l","y">>, <<"f","r","i","e","n","d">>,
    <<"r","e","l","a","t","i","o","n","s","h","i","p">>, <<"p","a","r","t","n","e","r">>,
    <<"s","p","o","u","s","e">>, <<"m","a","r","r","i","a","g","e">>, <<"d","a","t","i","n","g">>,
    <<"l","o","v","e">>, <<"r","o","m","a","n","c","e">>, <<"f","r","i","e","n","d","s","h","i","p">>,
    <<"s","o","c","i","a","l">>, <<"p","a","r","t","y">>, <<"g","a","t","h","e","r","i","n","g">>,
    <<"e","v","e","n","t">>, <<"c","e","l","e","b","r","a","t","i","o","n">>,
    <<"c","o","m","m","u","n","i","c","a","t","i","o","n">>,
    <<"c","o","n","v","e","r","s","a","t","i","o","n">>, <<"d","i","s","c","u","s","s","i","o","n">>,
    <<"a","r","g","u","m","e","n","t">>, <<"c","o","n","f","l","i","c","t">>,
    <<"a","g","r","e","e","m","e","n","t">>, <<"s","u","p","p","o","r","t">>, <<"h","e","l","p">>,
    <<"a","d","v","i","c","e">>, <<"g","u","i","d","a","n","c","e">>,
    <<"u","n","d","e","r","s","t","a","n","d","i","n","g">>, <<"e","m","p","a","t","h","y">>,
    <<"c","o","m","p","a","s","s","i","o","n">>, <<"t","r","u","s","t">>, <<"r","e","s","p","e","c","t">>,
    <<"l","o","y","a","l","t","y">>, <<"c","o","m","m","i","t","m","e","n","t">>, <<"b","o","n","d">>,
    <<"c","o","n","n","e","c","t","i","o","n">>, <<"i","n","t","i","m","a","c","y">>,
    <<"p","a","r","e","n","t">>, <<"c","h","i","l","d">>, <<"s","o","n">>,
    <<"d","a","u","g","h","t","e","r">>, <<"m","o","t","h","e","r">>, <<"f","a","t","h","e","r">>,
    <<"b","r","o","t","h","e","r">>, <<"s","i","s","t","e","r">>,
    <<"g","r","a","n","d","p","a","r","e","n","t">>, <<"u","n","c","l","e">>, <<"a","u","n","t">>,
    <<"c","o","u","s","i","n">>, <<"n","e","i","g","h","b","o","r">>,
    <<"c","o","m","m","u","n","i","t","y">>, <<"g","r","o","u","p">>, <<"c","l","u","b">>,
    <<"o","r","g","a","n","i","z","a","t","i","o","n">>, <<"n","e","t","w","o","r","k">>,
    <<"c","o","n","t","a","c","t">>, <<"a","c","q","u","a","i","n","t","a","n","c","e">>,
    <<"c","o","l","l","e","a","g","u","e">>
  >>

\* the keywords of category 'personal_development'
categoryWords_personal_development ==
  <<
    <<"l","e","a","r","n","i","n","g">>, <<"e","d","u","c","a","t","i","o","n">>, <<"s","t","u","d","y">>,
    <<"c","o","u","r","s","e">>, <<"c","l","a","s","s">>, <<"t","r","a","i","n","i","n","g">>,
    <<"s","k","i","l","l">>, <<"k","n","o","w","l","e","d","g","e">>, <<"g","r","o","w","t","h">>,
    <<"d","e","v","e","l","o","p","m","e","n","t">>, <<"i","m","p","r","o","v","e","m","e","n","t">>,
    <<"p","r","o","g","r","e","s","s">>, <<"a","c","h","i","e","v","e","m","e","n","t">>,
    <<"g","o","a","l">>, <<"o","b","j","e","c","t","i","v","e">>, <<"p","l","a","n">>,
    <<"s","t","r","a","t","e","g","y">>, <<"v","i","s","i","o","n">>, <<"d","r","e","a","m">>,
    <<"a","s","p","i","r","a","t","i","o","n">>, <<"a","m","b","i","t","i","o","n">>,
    <<"m","o","t","i","v","a","t","i","o","n">>, <<"i","n","s","p","i","r","a","t","i","o","n">>,
    <<"c","r","e","a","t","i","v","i","t","y">>, <<"i","n","n","o","v","a","t","i","o","n">>,
    <<"t","h","i","n","k","i","n","g">>, <<"r","e","f","l","e","c","t","i","o","n">>,
    <<"c","o","n","t","e","m","p","l","a","t","i","o","n">>, <<"m","i","n","d","f","u","l","n","e","s","s">>,
    <<"a","w","a","r","e","n","e","s","s">>, <<"c","o","n","s","c","i","o","u","s","n","e","s","s">>,
    <<"s","p","i","r","i","t","u","a","l","i","t","y">>, <<"p","h","i","l","o","s","o","p","h","y">>,
    <<"w","i","s","d","o","m">>, <<"b","o","o","k">>, <<"r","e","a","d","i","n","g">>,
    <<"w","r","i","t","i","n","g">>, <<"j","o","u","r","n","a","l">>, <<"d","i","a","r","y">>,
    <<"n","o","t","e">>, <<"i","d","e","a">>, <<"t","h","o","u","g","h","t">>,
    <<"c","o","n","c","e","p","t">>, <<"t","h","e","o","r","y">>, <<"p","r","a","c","t","i","c","e">>,
    <<"h","a","b","i","t">>, <<"r","o","u","t","i","n","e">>, <<"d","i","s","c","i","p","l","i","n","e">>,
    <<"c","o","n","s","i","s","t","e","n","c","y">>, <<"c","h","a","l","l","e","n","g","e">>,
    <<"o","p","p","o","r","t","u","n","i","t","y">>, <<"e","x","p","e","r","i","e","n","c","e">>,
    <<"a","d","v","e","n","t","u","r","e">>, <<"e","x","p","l","o","r","a","t","i","o","n">>,
    <<"d","i","s","c","o","v","e","r","y">>
  >>

\* the keywords of category 'finance'
categoryWords_finance ==
  <<
    <<"m","o","n","e","y">>, <<"f","i","n","a","n","c","e">>, <<"f","i","n","a","n","c","i","a","l">>,
    <<"b","u","d","g","e","t">>, <<"e","x","p","e","n","s","e">>, <<"c","o","s","t">>,
    <<"p","r","i","c","e">>, <<"p","a","y","m","e","n","t">>, <<"s","a","l","a","r","y">>,
    <<"i","n","c","o","m","e">>, <<"e","a","r","n","i","n","g">>, <<"p","r","o","f","i","t">>,
    <<"l","o","s","s">>, <<"s","a","v","i","n","g">>, <<"s","p","e","n","d","i","n","g">>,
    <<"i","n","v","e","s","t","m","e","n","t">>, <<"s","t","o","c","k">>, <<"b","o","n","d">>,
    <<"p","o","r","t","f","o","l","i","o">>, <<"r","e","t","i","r","e","m","e","n","t">>,
    <<"p","e","n","s","i","o","n">>, <<"i","n","s","u","r","a","n","c","e">>, <<"t","a","x">>,
    <<"d","e","b","t">>, <<"l","o","a","n">>, <<"m","o","r","t","g","a","g","e">>,
    <<"c","r","e","d","i","t">>, <<"b","a","n","k","i","n","g">>, <<"a","c","c","o","u","n","t">>,
    <<"t","r","a","n","s","a","c","t","i","o","n">>, <<"p","u","r","c","h","a","s","e">>, <<"b","u","y">>,
    <<"s","e","l","l">>, <<"t","r","a","d","e">>, <<"m","a","r","k","e","t">>,
    <<"e","c","o","n","o","m","y">>, <<"i","n","f","l","a","t","i","o","n">>,
    <<"r","e","c","e","s","s","i","o","n">>, <<"g","r","o","w","t","h">>, <<"w","e","a","l","t","h">>,
    <<"r","i","c","h">>, <<"p","o","o","r">>, <<"e","x","p","e","n","s","i","v","e">>,
    <<"c","h","e","a","p">>, <<"a","f","f","o","r","d","a","b","l","e">>,
    <<"v","a","l","u","a","b","l","e">>, <<"w","o","r","t","h">>
  >>

\* the keywords of category 'technology'
categoryWords_technology ==
  <<
    <<"t","e","c","h","n","o","l","o","g","y">>, <<"c","o","m","p","u","t","e","r">>,
    <<"l","a","p","t","o","p">>, <<"d","e","s","k","t","o","p">>, <<"p","h","o","n","e">>,
    <<"m","o","b","i","l","e">>, <<"s","m","a","r","t","p","h","o","n","e">>, <<"t","a","b","l","e","t">>,
    <<"s","o","f","t","w","a","r","e">>, <<"a","p","p","l","i","c","a","t","i","o","n">>, <<"a","p","p">>,
    <<"p","r","o","g","r","a","m">>, <<"s","y","s","t","e","m">>, <<"p","l","a","t","f","o","r","m">>,
    <<"w","e","b","s","i","t","e">>, <<"i","n","t","e","r","n","e","t">>, <<"o","n","l","i","n","e">>,
    <<"d","i","g","i","t","a","l">>, <<"e","l","e","c","t","r","o","n","i","c">>,
    <<"d","e","v","i","c","e">>, <<"g","a","d","g","e","t">>, <<"t","o","o","l">>,
    <<"e","q","u","i","p","m","e","n","t">>, <<"h","a","r","d","w","a","r","e">>,
    <<"n","e","t","w","o","r","k">>, <<"c","o","n","n","e","c","t","i","o","n">>,
    <<"w","i","r","e","l","e","s","s">>, <<"b","l","u","e","t","o","o","t","h">>, <<"w","i","f","i">>,
    <<"d","a","t","a">>, <<"i","n","f","o","r","m","a","t","i","o","n">>,
    <<"d","a","t","a","b","a","s","e">>, <<"s","e","r","v","e","r">>, <<"c","l","o","u","d">>,
    <<"s","t","o","r","a","g","e">>, <<"b","a","c","k","u","p">>, <<"s","e","c","u","r","i","t","y">>,
    <<"p","r","i","v","a","c","y">>, <<"e","n","c","r","y","p","t","i","o","n">>,
    <<"c","o","d","i","n","g">>, <<"p","r","o","g","r","a","m","m","i","n","g">>,
    <<"d","e","v","e","l","o","p","m","e","n","t">>, <<"d","e","s","i","g","n">>,
    <<"i","n","t","e","r","f","a","c","e">>, <<"u","s","e","r">>,
    <<"e","x","p","e","r","i","e","n","c","e">>, <<"a","r","t","i","f","i","c","i","a","l">>,
    <<"i","n","t","e","l","l","i","g","e","n","c","e">>, <<"m","a","c","h","i","n","e">>,
    <<"l","e","a","r","n","i","n","g">>, <<"a","u","t","o","m","a","t","i","o","n">>,
    <<"r","o","b","o","t">>, <<"s","m","a","r","t">>
  >>

\* the keywords of category 'home'
categoryWords_home ==
  <<
    <<"h","o","m","e">>, <<"h","o","u","s","e">>, <<"a","p","a","r","t","m","e","n","t">>,
    <<"r","o","o","m">>, <<"b","e","d","r","o","o","m">>, <<"k","i","t","c","h","e","n">>,
    <<"b","a","t","h","r","o","o","m">>, <<"l","i","v","i","n","g">>, <<"d","i","n","i","n","g">>,
    <<"o","f","f","i","c","e">>, <<"g","a","r","a","g","e">>, <<"g","a","r","d","e","n">>,
    <<"y","a","r","d">>, <<"f","u","r","n","i","t","u","r","e">>,
    <<"d","e","c","o","r","a","t","i","o","n">>, <<"d","e","s","i","g","n">>,
    <<"r","e","n","o","v","a","t","i","o","n">>, <<"r","e","p","a","i","r">>,
    <<"m","a","i","n","t","e","n","a","n","c","e">>, <<"c","l","e","a","n","i","n","g">>,
    <<"o","r","g","a","n","i","z","a","t","i","o","n">>, <<"s","t","o","r","a","g","e">>,
    <<"a","p","p","l","i","a","n","c","e">>, <<"e","l","e","c","t","r","i","c">>,
    <<"p","l","u","m","b","i","n","g">>, <<"h","e","a","t","i","n","g">>, <<"c","o","o","l","i","n","g">>,
    <<"l","i","g","h","t","i","n","g">>, <<"s","e","c","u","r","i","t","y">>,
    <<"n","e","i","g","h","b","o","r","h","o","o","d">>, <<"l","o","c","a","t","i","o","n">>,
    <<"a","d","d","r","e","s","s">>, <<"r","e","n","t">>, <<"m","o","r","t","g","a","g","e">>,
    <<"p","r","o","p","e","r","t","y">>, <<"r","e","a","l"," ","e","s","t","a","t","e">>,
    <<"m","o","v","i","n","g">>, <<"p","a","c","k","i","n","g">>, <<"u","n","p","a","c","k","i","n","g">>,
    <<"s","e","t","t","l","i","n","g">>, <<"c","o","m","f","o","r","t">>, <<"c","o","z","y">>,
    <<"s","p","a","c","i","o","u","s">>, <<"m","o","d","e","r","n">>
  >>

\* the keywords of category 'travel'
categoryWords_travel ==
  <<
    <<"t","r","a","v","e","l">>, <<"t","r","i","p">>, <<"v","a","c","a","t","i","o","n">>,
    <<"h","o","l","i","d","a","y">>, <<"j","o","u","r","n","e","y">>,
    <<"a","d","v","e","n","t","u","r","e">>, <<"e","x","p","l","o","r","a","t","i","o","n">>,
    <<"t","o","u","r">>, <<"d","e","s","t","i","n","a","t","i","o","n">>,
    <<"l","o","c","a","t","i","o","n">>, <<"p","l","a","c","e">>, <<"c","i","t","y">>,
    <<"c","o","u","n","t","r","y">>, <<"c","o","n","t","i","n","e","n","t">>,
    <<"c","u","l","t","u","r","e">>, <<"l","o","c","a","l">>, <<"f","l","i","g","h","t">>,
    <<"p","l","a","n","e">>, <<"a","i","r","p","o","r","t">>, <<"h","o","t","e","l">>,
    <<"a","c","c","o","m","m","o","d","a","t","i","o","n">>, <<"b","o","o","k","i","n","g">>,
    <<"r","e","s","e","r","v","a","t","i","o","n">>, <<"r","e","s","t","a","u","r","a","n","t">>,
    <<"f","o","o","d">>, <<"c","u","i","s","i","n","e">>, <<"s","i","g","h","t","s","e","e","i","n","g">>,
    <<"a","t","t","r","a","c","t","i","o","n">>, <<"m","u","s","e","u","m">>, <<"p","a","r","k">>,
    <<"b","e","a","c","h">>, <<"m","o","u","n","t","a","i","n">>, <<"n","a","t","u","r","e">>,
    <<"l","a","n","d","s","c","a","p","e">>, <<"s","c","e","n","e","r","y">>, <<"p","h","o","t","o">>,
    <<"m","e","m","o","r","y">>, <<"e","x","p","e","r","i","e","n","c","e">>,
    <<"r","e","c","r","e","a","t","i","o","n">>, <<"e","n","t","e","r","t","a","i","n","m","e","n","t">>,
    <<"f","u","n">>, <<"h","o","b","b","y">>, <<"i","n","t","e","r","e","s","t">>,
    <<"p","a","s","s","i","o","n">>, <<"a","c","t","i","v","i","t","y">>, <<"s","p","o","r","t">>,
    <<"g","a","m","e">>, <<"m","u","s","i","c">>, <<"m","o","v","i","e">>, <<"b","o","o","k">>,
    <<"a","r","t">>, <<"c","r","e","a","t","i","v","i","t","y">>, <<"r","e","l","a","x","a","t","i","o","n">>
  >>

\* TopicExtractor.topicCategories after initializeTopicCategories, in
\* insertion order
initialTopicCategories ==
  <<
    [name |-> <<"w","o","r","k">>, words |-> categoryWords_work],
    [name |-> <<"h","e","a","l","t","h">>, words |-> categoryWords_health],
    [name |-> <<"r","e","l","a","t","i","o","n","s","h","i","p","s">>, words |-> categoryWords_relationships],
    [name |-> <<"p","e","r","s","o","n","a","l","_","d","e","v","e","l","o","p","m","e","n","t">>, words |-> categoryWords_personal_development],
    [name |-> <<"f","i","n","a","n","c","e">>, words |-> categoryWords_finance],
    [name |-> <<"t","e","c","h","n","o","l","o","g","y">>, words |-> categoryWords_technology],
    [name |-> <<"h","o","m","e">>, words |-> categoryWords_home],
    [name |-> <<"t","r","a","v","e","l">>, words |-> categoryWords_travel]
  >>

\* domain words of score 0.8
domainWords_1 ==
  {
    <<"f","e","e","l">>, <<"f","e","e","l","i","n","g">>, <<"e","m","o","t","i","o","n">>, <<"m","o","o","d">>,
    <<"t","h","i","n","k">>, <<"t","h","o","u","g","h","t">>, <<"m","i","n","d">>, <<"m","e","n","t","a","l">>
  }

\* domain words of score 0.7
domainWords_2 ==
  {
    <<"p","l","a","n">>, <<"g","o","a","l">>, <<"o","b","j","e","c","t","i","v","e">>, <<"t","a","s","k">>,
    <<"p","r","o","j","e","c","t">>, <<"w","o","r","k">>, <<"c","o","m","p","l","e","t","e">>,
    <<"f","i","n","i","s","h">>
  }

\* domain words of score 0.6
domainWords_3 ==
  {
    <<"t","i","m","e">>, <<"s","c","h","e","d","u","l","e">>, <<"c","a","l","e","n","d","a","r">>,
    <<"d","e","a","d","l","i","n","e">>, <<"u","r","g","e","n","t">>, <<"p","r","i","o","r","i","t","y">>,
    <<"i","m","p","o","r","t","a","n","t">>
  }

\* domain words of score 0.7
domainWords_4 ==
  {
    <<"l","e","a","r","n">>, <<"s","t","u","d","y">>, <<"p","r","a","c","t","i","c","e">>,
    <<"s","k","i","l","l">>, <<"k","n","o","w","l","e","d","g","e">>, <<"i","m","p","r","o","v","e">>,
    <<"d","e","v","e","l","o","p">>, <<"g","r","o","w">>
  }

\* domain words of score 0.8
domainWords_5 ==
  {
    <<"p","r","o","b","l","e","m">>, <<"i","s","s","u","e">>, <<"c","h","a","l","l","e","n","g","e">>,
    <<"s","o","l","u","t","i","o","n">>, <<"f","i","x">>, <<"s","o","l","v","e">>,
    <<"r","e","s","o","l","v","e">>, <<"h","a","n","d","l","e">>
  }

\* domain words of score 0.6
domainWords_6 ==
  {
    <<"f","a","m","i","l","y">>, <<"f","r","i","e","n","d">>, <<"c","o","l","l","e","a","g","u","e">>,
    <<"t","e","a","m">>, <<"p","a","r","t","n","e","r">>, <<"r","e","l","a","t","i","o","n","s","h","i","p">>,
    <<"c","o","m","m","u","n","i","c","a","t","i","o","n">>
  }

domainKeywordsDomain ==
  domainWords_1 \cup domainWords_2 \cup domainWords_3 \cup domainWords_4 \cup domainWords_5 \cup domainWords_6

\* TopicExtractor.domainKeywords after initializeDomainKeywords, in thousandths
domainKeywords ==
  [w \in domainKeywordsDomain |->
     CASE w \in domainWords_1 -> 800
       [] w \in domainWords_2 -> 700
       [] w \in domainWords_3 -> 600
       [] w \in domainWords_4 -> 700
       [] w \in domainWords_5 -> 800
       [] w \in domainWords_6 -> 600]

\* ActionPatterns.patterns after initializePatterns, in insertion order
initialPatterns ==
  <<
    [name |-> "urgent_tasks", regex |-> [source |-> "urgent_tasks", global |-> TRUE, lastIndex |-> 0],
     priority |-> "high", category |-> "urgent",
     description |-> "Urgent tasks requiring immediate attention"],
    [name |-> "deadline_tasks", regex |-> [source |-> "deadline_tasks", global |-> TRUE, lastIndex |-> 0],
     priority |-> "high", category |-> "deadline",
     description |-> "Tasks with specific deadlines"],
    [name |-> "need_to_actions", regex |-> [source |-> "need_to_actions", global |-> TRUE, lastIndex |-> 0],
     priority |-> "high", category |-> "obligation",
     description |-> "Tasks with strong obligation language"],
    [name |-> "todo_items", regex |-> [source |-> "todo_items", global |-> TRUE, lastIndex |-> 0],
     priority |-> "medium", category |-> "todo",
     description |-> "Explicit todo items"],
    [name |-> "planning_actions", regex |-> [source |-> "planning_actions", global |-> TRUE, lastIndex |-> 0],
     priority |-> "medium", category |-> "planning",
     description |-> "Planned future actions"],
    [name |-> "meeting_actions", regex |-> [source |-> "meeting_actions", global |-> TRUE, lastIndex |-> 0],
     priority |-> "medium", category |-> "meeting",
     description |-> "Meeting and appointment scheduling"],
    [name |-> "communication_actions", regex |-> [source |-> "communication_actions", global |-> TRUE, lastIndex |-> 0],
     priority |-> "medium", category |-> "communication",
     description |-> "Communication tasks"],
    [name |-> "research_actions", regex |-> [source |-> "research_actions", global |-> TRUE, lastIndex |-> 0],
     priority |-> "medium", category |-> "research",
     description |-> "Research and information gathering"],
    [name |-> "consideration_actions", regex |-> [source |-> "consideration_actions", global |-> TRUE, lastIndex |-> 0],
     priority |-> "low", category |-> "consideration",
     description |-> "Items for consideration or future thought"],
    [name |-> "want_actions", regex |-> [source |-> "want_actions", global |-> TRUE, lastIndex |-> 0],
     priority |-> "low", category |-> "aspiration",
     description |-> "Aspirational actions and wants"],
    [name |-> "someday_actions", regex |-> [source |-> "someday_actions", global |-> TRUE, lastIndex |-> 0],
     priority |-> "low", category |-> "someday",
     description |-> "Future or someday actions"],
    [name |-> "action_verbs", regex |-> [source |-> "action_verbs", global |-> TRUE, lastIndex |-> 0],
     priority |-> "medium", category |-> "action",
     description |-> "Sentences containing clear action verbs"],
    [name |-> "question_actions", regex |-> [source |-> "question_actions", global |-> TRUE, lastIndex |-> 0],
     priority |-> "low", category |-> "question",
     description |-> "Action-oriented questions"],
    [name |-> "time_actions", regex |-> [source |-> "time_actions", global |-> TRUE, lastIndex |-> 0],
     priority |-> "medium", category |-> "scheduled",
     description |-> "Time-specific actions"],
    [name |-> "work_actions", regex |-> [source |-> "work_actions", global |-> TRUE, lastIndex |-> 0],
     priority |-> "medium", category |-> "work",
     description |-> "Work and professional actions"],
    [name |-> "personal_actions", regex |-> [source |-> "personal_actions", global |-> TRUE, lastIndex |-> 0],
     priority |-> "medium", category |-> "personal",
     description |-> "Personal life actions"]
  >>

\* ------------------------------------------------------------------------
\* State
\* ------------------------------------------------------------------------

VARIABLES
  customPositive,   \* the words addCustomWords has added to positiveWords
  customNegative,   \* the words addCustomWords has added to negativeWords
  patterns,         \* ActionPatterns.patterns: the entries in insertion order
  customCategories, \* the entries addCustomCategory has set in topicCategories
  calls,            \* the processText calls under way, each at an await
  tokens,           \* the token sequence the caller holds
  inputText,        \* the text the caller holds
  op,               \* the public method that returned last
  ret               \* the value it returned

sentimentVars == <<customPositive, customNegative>>

patternVars == <<patterns>>

topicVars == <<customCategories>>

pipelineVars == <<calls>>

vars ==
  <<customPositive, customNegative, patterns, customCategories, calls, tokens,
    inputText, op, ret>>

\* ------------------------------------------------------------------------
\* SentimentDictionary: state read through the fields' names
\* ------------------------------------------------------------------------

\* SentimentDictionary.positiveWords / negativeWords: the sets built by
\* initializeDictionaries, which addCustomWords only ever extends
positiveWords == positiveWordsList \cup customPositive

negativeWords == negativeWordsList \cup customNegative

\* SentimentDictionary.positiveScores / negativeScores: the maps built by
\* initializeDictionaries, where addCustomWords sets 0.5 / -0.5
positiveScores ==
  [w \in positiveWords |->
     IF w \in customPositive THEN 500 ELSE initialPositiveScores[w]]

negativeScores ==
  [w \in negativeWords |->
     IF w \in customNegative THEN -500 ELSE initialNegativeScores[w]]

\* ------------------------------------------------------------------------
\* SentimentDictionary.analyze
\* ------------------------------------------------------------------------

\* map.get(word) || dflt
getOr(map, word, dflt) ==
  IF word \in DOMAIN map /\ map[word] # 0 THEN map[word] ELSE dflt

\* words.map(w => w.toLowerCase())
lowerWordsOf(words) == [k \in 1..Len(words) |-> toLowerCase(words[k])]

emptyBreakdown ==
  [positiveWords |-> <<>>, negativeWords |-> <<>>,
   intensifiers |-> <<>>, negators |-> <<>>]

\* the dictionary score of a word that is neither intensifier nor negator
wordScoreOf(word) ==
  IF word \in positiveWords THEN getOr(positiveScores, word, 400)
  ELSE IF word \in negativeWords THEN getOr(negativeScores, word, -400)
  ELSE 0

\* (mutant of isNegatedAt: the scan looks one token back only)
isNegatedAt_OneBack(lowerWords, i) ==
  \E j \in Max(1, i - 1)..(i - 1) : lowerWords[j] \in negators

\* (mutant of isNegatedAt: two negators in the window cancel)
isNegatedAt_Parity(lowerWords, i) ==
  Cardinality({j \in Max(1, i - 2)..(i - 1) : lowerWords[j] \in negators}) = 1

\* the negation scan: for (j = Math.max(0, i - 2); j < i; j++)
isNegatedAt(lowerWords, i) ==
  \E j \in Max(1, i - 2)..(i - 1) : lowerWords[j] \in negators

\* (mutant of intensityMultiplierAt: the following token is not looked at)
intensityMultiplierAt_PrevOnly(lowerWords, i) ==
  LET prevWord == IF i > 1 THEN lowerWords[i - 1] ELSE <<>>
  IN  IF prevWord \in intensifiers THEN 13 ELSE 10

\* the intensity multiplier in tenths: 1.3 for an intensifier just before,
\* Math.max(multiplier, 1.2) for one just after
intensityMultiplierAt(lowerWords, i) ==
  LET prevWord == IF i > 1 THEN lowerWords[i - 1] ELSE <<>>
      nextWord == IF i < Len(lowerWords) THEN lowerWords[i + 1] ELSE <<>>
      m1 == IF prevWord \in intensifiers THEN 13 ELSE 10
  IN  IF nextWord \in intensifiers THEN Max(m1, 12) ELSE m1

\* (mutant of adjustedScoreAt: a negator before the word changes nothing)
adjustedScoreAt_NoNegation(lowerWords, i, wordScore) ==
  (wordScore * intensityMultiplierAt(lowerWords, i)) \div 10

\* what one sentiment word adds to totalScore, in thousandths:
\* wordScore = -wordScore * 0.8 when negated, then wordScore *= multiplier
adjustedScoreAt(lowerWords, i, wordScore) ==
  LET negated == IF isNegatedAt(lowerWords, i)
                 THEN ((0 - wordScore) * 8) \div 10 ELSE wordScore
  IN  (negated * intensityMultiplierAt(lowerWords, i)) \div 10

\* (mutant of analyzeStep: an intensifier or negator is recorded and then
\* scored like any other word, the continue being lost)
analyzeStep_NoContinue(lowerWords, i, acc) ==
  LET word == lowerWords[i]
      bd0  == acc.breakdown
      bd   == IF word \in intensifiers
              THEN [bd0 EXCEPT !.intensifiers = Append(bd0.intensifiers, word)]
              ELSE IF word \in negators
              THEN [bd0 EXCEPT !.negators = Append(bd0.negators, word)]
              ELSE bd0
      wordScore == wordScoreOf(word)
      bd2 == IF word \in positiveWords
             THEN [bd EXCEPT !.positiveWords = Append(bd.positiveWords, word)]
             ELSE IF word \in negativeWords
             THEN [bd EXCEPT !.negativeWords = Append(bd.negativeWords, word)]
             ELSE bd
  IN  IF wordScore # 0
      THEN [totalScore     |-> acc.totalScore
                               + adjustedScoreAt(lowerWords, i, wordScore),
            sentimentWords |-> acc.sentimentWords + 1,
            breakdown      |-> bd2]
      ELSE [acc EXCEPT !.breakdown = bd2]

\* (mutant of analyzeStep: a scored word is listed under the sign of what it
\* adds to totalScore)
analyzeStep_ListByContribution(lowerWords, i, acc) ==
  LET word == lowerWords[i]
      bd   == acc.breakdown
  IN  IF word \in intensifiers
      THEN [acc EXCEPT !.breakdown.intensifiers = Append(bd.intensifiers, word)]
      ELSE IF word \in negators
      THEN [acc EXCEPT !.breakdown.negators = Append(bd.negators, word)]
      ELSE LET wordScore == wordScoreOf(word)
               added == adjustedScoreAt(lowerWords, i, wordScore)
               bd2 == IF added > 0
                      THEN [bd EXCEPT !.positiveWords = Append(bd.positiveWords, word)]
                      ELSE IF added < 0
                      THEN [bd EXCEPT !.negativeWords = Append(bd.negativeWords, word)]
                      ELSE bd
           IN  IF wordScore # 0
               THEN [totalScore     |-> acc.totalScore + added,
                     sentimentWords |-> acc.sentimentWords + 1,
                     breakdown      |-> bd2]
               ELSE [acc EXCEPT !.breakdown = bd2]

\* one iteration of the loop over lowerWords
analyzeStep(lowerWords, i, acc) ==
  LET word == lowerWords[i]
      bd   == acc.breakdown
  IN  IF word \in intensifiers
      THEN [acc EXCEPT !.breakdown.intensifiers = Append(bd.intensifiers, word)]
      ELSE IF word \in negators
      THEN [acc EXCEPT !.breakdown.negators = Append(bd.negators, word)]
      ELSE LET wordScore == wordScoreOf(word)
               bd2 == IF word \in positiveWords
                      THEN [bd EXCEPT !.positiveWords = Append(bd.positiveWords, word)]
                      ELSE IF word \in negativeWords
                      THEN [bd EXCEPT !.negativeWords = Append(bd.negativeWords, word)]
                      ELSE bd
           IN  IF wordScore # 0
               THEN [totalScore     |-> acc.totalScore
                                        + adjustedScoreAt(lowerWords, i, wordScore),
                     sentimentWords |-> acc.sentimentWords + 1,
                     breakdown      |-> bd2]
               ELSE [acc EXCEPT !.breakdown = bd2]

RECURSIVE analyzeLoop(_, _, _)
analyzeLoop(lowerWords, i, acc) ==
  IF i > Len(lowerWords) THEN acc
  ELSE analyzeLoop(lowerWords, i + 1, analyzeStep(lowerWords, i, acc))

\* (mutant of normalizedScoreOf: the average is not clamped)
normalizedScoreOf_NoClamp(totalScore, sentimentWords) ==
  IF sentimentWords = 0 THEN [num |-> 0, den |-> 1]
  ELSE [num |-> totalScore, den |-> sentimentWords]

\* Math.max(-1, Math.min(1, totalScore / sentimentWords)) as num/den
normalizedScoreOf(totalScore, sentimentWords) ==
  IF sentimentWords = 0 THEN [num |-> 0, den |-> 1]
  ELSE IF totalScore > 1000 * sentimentWords THEN [num |-> 1000, den |-> 1]
  ELSE IF totalScore < (0 - 1000) * sentimentWords THEN [num |-> -1000, den |-> 1]
  ELSE [num |-> totalScore, den |-> sentimentWords]

\* Math.min(0.95, wordDensity * 2 + consistencyFactor * 0.5) as num/den, with
\* wordDensity = sentimentWords / Math.max(1, words.length) and
\* consistencyFactor = |totalScore| / sentimentWords
confidenceOf(totalScore, sentimentWords, nWords) ==
  IF sentimentWords = 0 THEN [num |-> 0, den |-> 1]
  ELSE LET n   == Max(1, nWords)
           num == 2000 * sentimentWords * 2 * sentimentWords + Abs(totalScore) * n
           den == 2 * sentimentWords * n
       IN  IF num > 950 * den THEN [num |-> 950, den |-> 1]
           ELSE [num |-> num, den |-> den]

\* (mutant of labelOf: no neutral band around 0)
labelOf_NoNeutralBand(normalizedScore) ==
  IF normalizedScore.num >= 0 THEN "positive" ELSE "negative"

\* the label, taken from normalizedScore before it is rounded
labelOf(normalizedScore) ==
  IF normalizedScore.num > 100 * normalizedScore.den THEN "positive"
  ELSE IF normalizedScore.num < (0 - 100) * normalizedScore.den THEN "negative"
  ELSE "neutral"

analyze(words) ==
  LET lowerWords == lowerWordsOf(words)
      acc == analyzeLoop(lowerWords, 1,
               [totalScore |-> 0, sentimentWords |-> 0, breakdown |-> emptyBreakdown])
      normalizedScore == normalizedScoreOf(acc.totalScore, acc.sentimentWords)
      confidence == confidenceOf(acc.totalScore, acc.sentimentWords, Len(words))
  IN  [score      |-> toFixed(normalizedScore.num, normalizedScore.den),
       confidence |-> toFixed(confidence.num, confidence.den),
       label      |-> labelOf(normalizedScore),
       breakdown  |-> acc.breakdown]

\* ------------------------------------------------------------------------
\* SentimentDictionary.quickAnalyze
\* ------------------------------------------------------------------------

\* words.forEach: a word of positiveWords counts as positive, any other word
\* of negativeWords as negative
RECURSIVE quickCount(_, _, _)
quickCount(words, k, acc) ==
  IF k > Len(words) THEN acc
  ELSE quickCount(words, k + 1,
         IF toLowerCase(words[k]) \in positiveWords
         THEN [acc EXCEPT !.positiveCount = @ + 1]
         ELSE IF toLowerCase(words[k]) \in negativeWords
         THEN [acc EXCEPT !.negativeCount = @ + 1]
         ELSE acc)

\* (mutant of quickConfidenceOf: the density is not capped)
quickConfidenceOf_NoCap(totalSentiment, length) ==
  [num |-> 2 * totalSentiment, den |-> Max(1, length)]

\* Math.min(0.9, totalSentiment / Math.max(1, words.length) * 2) as a fraction
quickConfidenceOf(totalSentiment, length) ==
  IF 20 * totalSentiment > 9 * Max(1, length)
  THEN [num |-> 9, den |-> 10]
  ELSE [num |-> 2 * totalSentiment, den |-> Max(1, length)]

\* the label from positiveRatio = positiveCount / totalSentiment
quickLabelOf(positiveCount, totalSentiment) ==
  IF 10 * positiveCount > 6 * totalSentiment THEN "positive"
  ELSE IF 10 * positiveCount < 4 * totalSentiment THEN "negative"
  ELSE "neutral"

quickAnalyze(words) ==
  With(quickCount(words, 1, [positiveCount |-> 0, negativeCount |-> 0]), LAMBDA c :
    LET totalSentiment == c.positiveCount + c.negativeCount
    IN  IF totalSentiment = 0
        THEN [label |-> "neutral", confidence |-> [num |-> 0, den |-> 1]]
        ELSE [label |-> quickLabelOf(c.positiveCount, totalSentiment),
              confidence |-> quickConfidenceOf(totalSentiment, Len(words))])

\* positive.forEach(word => set.add(word.toLowerCase()))
addedWords(list) == {toLowerCase(list[k]) : k \in 1..Len(list)}

\* ------------------------------------------------------------------------
\* RegExp objects and the character classes of the regex literals
\* ------------------------------------------------------------------------

\* \s
WhiteSpace == {" ", "\t", "\n", "\r"}

isSpace(c) == c \in WhiteSpace

Digits == {"0","1","2","3","4","5","6","7","8","9"}

\* \w
isWordChar(c) ==
  \/ \E k \in 1..Len(LowerChars) : c = LowerChars[k] \/ c = UpperChars[k]
  \/ c \in Digits
  \/ c = "_"

SetMin(S) == CHOOSE m \in S : \A n \in S : m <= n

SetMax(S) == CHOOSE m \in S : \A n \in S : m >= n

\* the sum of the first k numbers of a sequence
RECURSIVE sum(_, _)
sum(numbers, k) == IF k = 0 THEN 0 ELSE numbers[k] + sum(numbers, k - 1)

\* /x*/ at index from (0-based): the length of the run of "x" that starts there
xRun(text, from) ==
  LET stops == {k \in (from + 1)..Len(text) : text[k] # "x"}
  IN  IF stops = {} THEN Len(text) - from ELSE SetMin(stops) - 1 - from

\* the leftmost match of a regex at or after index from: <<>> when there is
\* none, else one [start, end] (0-based, end exclusive)
matchFrom(source, text, from) ==
  IF from > Len(text) THEN <<>>
  ELSE IF source = "rxEmpty"
  THEN <<[start |-> from, end |-> from + xRun(text, from)]>>
  ELSE LET table == builtinMatchTable(source, text) \o customMatchTable(source, text)
           later == {k \in 1..Len(table) : table[k].start >= from}
       IN  IF later = {} THEN <<>>
           ELSE <<table[CHOOSE k \in later :
                          \A j \in later : table[k].start <= table[j].start]>>

\* (mutant of exec: a search that fails leaves lastIndex where it was)
exec_KeepLastIndex(regex, text) ==
  With(matchFrom(regex.source, text, IF regex.global THEN regex.lastIndex ELSE 0),
       LAMBDA found :
         IF found = <<>>
         THEN [match |-> <<>>, lastIndex |-> regex.lastIndex]
         ELSE [match |-> <<SubSeq(text, found[1].start + 1, found[1].end)>>,
               lastIndex |-> IF regex.global THEN found[1].end ELSE regex.lastIndex])

\* RegExp.prototype.exec: a global regex searches from lastIndex, sets
\* lastIndex to the end of the match and to 0 when there is none; a regex
\* without the g flag searches from 0 and leaves lastIndex alone.
\* match is <<>> for null and <<match[0]>> otherwise.
exec(regex, text) ==
  With(matchFrom(regex.source, text, IF regex.global THEN regex.lastIndex ELSE 0),
       LAMBDA found :
         IF found = <<>>
         THEN [match |-> <<>>,
               lastIndex |-> IF regex.global THEN 0 ELSE regex.lastIndex]
         ELSE [match |-> <<SubSeq(text, found[1].start + 1, found[1].end)>>,
               lastIndex |-> IF regex.global THEN found[1].end ELSE regex.lastIndex])

\* ------------------------------------------------------------------------
\* ActionPatterns.findMatches
\* ------------------------------------------------------------------------

\* the while loop of findMatches from the regex's lastIndex on. returns is
\* FALSE when an exec leaves the regex as it found it after a match: the
\* loop then repeats that exec for ever.
RECURSIVE execLoop(_, _, _)
execLoop(text, regex, matches) ==
  With(exec(regex, text), LAMBDA r :
    IF r.match = <<>>
    THEN [matches |-> matches, lastIndex |-> r.lastIndex, returns |-> TRUE]
    ELSE IF r.lastIndex = regex.lastIndex
    THEN [matches |-> matches \o r.match, lastIndex |-> r.lastIndex, returns |-> FALSE]
    ELSE With([regex EXCEPT !.lastIndex = r.lastIndex], LAMBDA advanced :
           With(matches \o r.match, LAMBDA longer : execLoop(text, advanced, longer))))

\* findMatches without the reset and with a single exec
findMatches_NoResetOneExec(text, regex) ==
  LET r == exec(regex, text)
  IN  [matches |-> r.match, lastIndex |-> r.lastIndex, returns |-> TRUE]

findMatches(text, regex) ==
  With([regex EXCEPT !.lastIndex = 0], LAMBDA reset : execLoop(text, reset, <<>>))

\* ------------------------------------------------------------------------
\* ActionPatterns.cleanMatch
\* ------------------------------------------------------------------------

trimStart(s) ==
  LET keep == {k \in 1..Len(s) : ~isSpace(s[k])}
  IN  IF keep = {} THEN <<>> ELSE SubSeq(s, SetMin(keep), Len(s))

trimEnd(s) ==
  LET keep == {k \in 1..Len(s) : ~isSpace(s[k])}
  IN  IF keep = {} THEN <<>> ELSE SubSeq(s, 1, SetMax(keep))

\* String.prototype.trim
trim(s) == With(trimStart(s), LAMBDA t : trimEnd(t))

\* replace(/^\W+/, '')
stripLeadingNonWord(s) ==
  LET keep == {k \in 1..Len(s) : isWordChar(s[k])}
  IN  IF keep = {} THEN <<>> ELSE SubSeq(s, SetMin(keep), Len(s))

\* replace(/\W+$/, '')
stripTrailingNonWord(s) ==
  LET keep == {k \in 1..Len(s) : isWordChar(s[k])}
  IN  IF keep = {} THEN <<>> ELSE SubSeq(s, 1, SetMax(keep))

\* replace(/\s+/g, ' '): every run of whitespace becomes one space
collapseWhitespace(s) ==
  LET runStarts == SelectSeq([k \in 1..Len(s) |-> k],
                             LAMBDA k : ~isSpace(s[k]) \/ k = 1 \/ ~isSpace(s[k - 1]))
  IN  [j \in 1..Len(runStarts) |->
         IF isSpace(s[runStarts[j]]) THEN " " ELSE s[runStarts[j]]]

Pronouns ==
  << <<"i">>, <<"w","e">>, <<"y","o","u">>, <<"t","h","e","y">>,
     <<"h","e">>, <<"s","h","e">>, <<"i","t">> >>

startsWith(s, p) == Len(s) >= Len(p) /\ SubSeq(s, 1, Len(p)) = p

\* replace(/^(i|we|you|they|he|she|it)\s+/, '')
stripLeadingPronoun(s) ==
  LET hits == {k \in 1..Len(Pronouns) :
                 /\ startsWith(s, Pronouns[k])
                 /\ Len(s) > Len(Pronouns[k])
                 /\ isSpace(s[Len(Pronouns[k]) + 1])}
  IN  IF hits = {} THEN s
      ELSE trimStart(SubSeq(s, Len(Pronouns[SetMin(hits)]) + 1, Len(s)))

cleanMatch(match) ==
  With(trim(match), LAMBDA trimmed :
  With(stripLeadingNonWord(trimmed), LAMBDA noLead :
  With(stripTrailingNonWord(noLead), LAMBDA noTrail :
  With(collapseWhitespace(noTrail), LAMBDA spaced :
  With(toLowerCase(spaced), LAMBDA lower :
  With(stripLeadingPronoun(lower), LAMBDA noPronoun : trim(noPronoun)))))))

\* ------------------------------------------------------------------------
\* ActionPatterns.detect and prioritizeItems
\* ------------------------------------------------------------------------

\* Array.prototype.indexOf, 1-based; 0 when absent
indexOf(arr, x) ==
  IF \E k \in 1..Len(arr) : arr[k] = x
  THEN SetMin({k \in 1..Len(arr) : arr[k] = x})
  ELSE 0

\* the elements of arr at the given indices, in that order
pick(arr, indices) == [j \in 1..Len(indices) |-> arr[indices[j]]]

\* the map and filter of detect: clean every match, keep the cleaned matches
\* longer than 10 and shorter than 200 at their first occurrence
cleanMatchesOf(matches) ==
  With([k \in 1..Len(matches) |-> cleanMatch(matches[k])], LAMBDA arr :
    pick(arr, SelectSeq([k \in 1..Len(arr) |-> k],
                        LAMBDA k : /\ Len(arr[k]) > 10
                                   /\ Len(arr[k]) < 200
                                   /\ indexOf(arr, arr[k]) = k)))

\* a sequence that keeps every element
uniqueOf_KeepAll(arr) == arr

\* Array.from(new Set(arr)): the first occurrences, in order
uniqueOf(arr) ==
  pick(arr, SelectSeq([k \in 1..Len(arr) |-> k], LAMBDA k : indexOf(arr, arr[k]) = k))

priorityScore(priority) ==
  IF priority = "high" THEN 3 ELSE IF priority = "medium" THEN 2 ELSE 1

\* (mutant of priorityScoreOf: the last pattern holding the item sets its
\* score, without Math.max)
priorityScoreOf_LastWins(item, patternResults) ==
  LET holders == {k \in 1..Len(patternResults) :
                    indexOf(patternResults[k].matches, item) > 0}
  IN  IF holders = {} THEN 0
      ELSE priorityScore(patternResults[SetMax(holders)].priority)

\* priorityScores.get(item) || 0 after the forEach of prioritizeItems
priorityScoreOf(item, patternResults) ==
  LET scores == {priorityScore(patternResults[k].priority) :
                   k \in {j \in 1..Len(patternResults) :
                            indexOf(patternResults[j].matches, item) > 0}}
  IN  IF scores = {} THEN 0 ELSE SetMax(scores)

\* a comparator that looks at the lengths only
compareItems_LengthOnly(a, b, patternResults) == Len(b) - Len(a)

\* the comparator of the sort: negative when a goes before b
compareItems(a, b, patternResults) ==
  LET scoreA == priorityScoreOf(a, patternResults)
      scoreB == priorityScoreOf(b, patternResults)
  IN  IF scoreA # scoreB THEN scoreB - scoreA ELSE Len(b) - Len(a)

\* Array.prototype.sort with that comparator (stable): each item goes in
\* front of the first already-placed item it must precede
RECURSIVE sortItems(_, _, _)
sortItems(items, k, patternResults) ==
  IF k = 0 THEN <<>>
  ELSE With(sortItems(items, k - 1, patternResults), LAMBDA sorted :
         LET after == {p \in 1..Len(sorted) :
                         compareItems(items[k], sorted[p], patternResults) < 0}
             place == IF after = {} THEN Len(sorted) + 1 ELSE SetMin(after)
         IN  SubSeq(sorted, 1, place - 1) \o <<items[k]>>
               \o SubSeq(sorted, place, Len(sorted)))

prioritizeItems(items, patternResults) == sortItems(items, Len(items), patternResults)

\* (mutant of patternResultOf: a pattern result is pushed for every pattern
\* that matched, also when no cleaned match is kept)
patternResultOf_AlwaysPush(entry, matches) ==
  With(cleanMatchesOf(matches), LAMBDA cleanMatches :
    IF Len(matches) > 0
    THEN <<[pattern |-> entry.name, matches |-> cleanMatches, priority |-> entry.priority]>>
    ELSE <<>>)

\* the body of the for loop of detect for one registry entry and the matches
\* findMatches found for it: no pattern result, or one
patternResultOf(entry, matches) ==
  With(cleanMatchesOf(matches), LAMBDA cleanMatches :
    IF Len(matches) > 0 /\ Len(cleanMatches) > 0
    THEN <<[pattern |-> entry.name, matches |-> cleanMatches, priority |-> entry.priority]>>
    ELSE <<>>)

\* the concatenation of a sequence of sequences
RECURSIVE flatten(_, _)
flatten(seqs, k) ==
  IF k > Len(seqs) THEN <<>> ELSE seqs[k] \o flatten(seqs, k + 1)

\* detect(text) on a registry: whether the call returns, its value, and the
\* registry it leaves (the lastIndex of every regex it scanned)
detect(text, registry) ==
  With([k \in 1..Len(registry) |-> findMatches(text, registry[k].regex)], LAMBDA scans :
  With(flatten([k \in 1..Len(registry) |-> patternResultOf(registry[k], scans[k].matches)], 1),
       LAMBDA patternResults :
  With(uniqueOf(flatten([k \in 1..Len(patternResults) |-> patternResults[k].matches], 1)),
       LAMBDA uniqueItems :
    LET stuck == {k \in 1..Len(registry) : ~scans[k].returns}
        scanned == IF stuck = {} THEN Len(registry) ELSE SetMin(stuck)
    IN  [returns |-> stuck = {},
         value |-> IF stuck = {}
                   THEN [items |-> prioritizeItems(uniqueItems, patternResults),
                         patterns |-> patternResults,
                         totalCount |-> Len(uniqueItems)]
                   ELSE <<>>,
         registry |-> [k \in 1..Len(registry) |->
                         IF k <= scanned
                         THEN [registry[k] EXCEPT !.regex.lastIndex = scans[k].lastIndex]
                         ELSE registry[k]]])))

\* ------------------------------------------------------------------------
\* ActionPatterns.hasActionItems
\* ------------------------------------------------------------------------

\* (mutant of confidenceOfMatches: no cap)
confidenceOfMatches_NoCap(totalMatches, highPriorityMatches) ==
  300 * totalMatches + 500 * highPriorityMatches

\* Number(Math.min(0.95, totalMatches * 0.3 + highPriorityMatches * 0.5)
\* .toFixed(2)) in thousandths: the sum is a multiple of 0.1 and is never
\* 0.95, so that neither the comparison nor the rounding to two decimals
\* depends on the floating-point error of the sum
confidenceOfMatches(totalMatches, highPriorityMatches) ==
  Min(950, 300 * totalMatches + 500 * highPriorityMatches)

\* hasActionItems(text) on a registry: whether the call returns, its value,
\* and the registry it leaves
hasActionItems(text, registry) ==
  With([k \in 1..Len(registry) |-> findMatches(text, registry[k].regex)], LAMBDA scans :
  With(sum([k \in 1..Len(registry) |-> Len(scans[k].matches)], Len(registry)),
       LAMBDA totalMatches :
  With(sum([k \in 1..Len(registry) |->
              IF registry[k].priority = "high" THEN Len(scans[k].matches) ELSE 0],
           Len(registry)),
       LAMBDA highPriorityMatches :
    LET stuck == {k \in 1..Len(registry) : ~scans[k].returns}
        scanned == IF stuck = {} THEN Len(registry) ELSE SetMin(stuck)
    IN  [returns |-> stuck = {},
         value |-> IF stuck = {}
                   THEN [hasActions |-> totalMatches > 0,
                         confidence |-> confidenceOfMatches(totalMatches,
                                                            highPriorityMatches),
                         count |-> totalMatches]
                   ELSE <<>>,
         registry |-> [k \in 1..Len(registry) |->
                         IF k <= scanned
                         THEN [registry[k] EXCEPT !.regex.lastIndex = scans[k].lastIndex]
                         ELSE registry[k]]])))

\* ------------------------------------------------------------------------
\* ActionPatterns.addCustomPattern
\* ------------------------------------------------------------------------

\* `custom_${name}`
customKey(name) ==
  CASE name = "trip" -> "custom_trip"
    [] name = "rent" -> "custom_rent"

\* Map.prototype.set: an existing key keeps its place, a new key goes last
mapSet(registry, entry) ==
  IF \E k \in 1..Len(registry) : registry[k].name = entry.name
  THEN [k \in 1..Len(registry) |->
          IF registry[k].name = entry.name THEN entry ELSE registry[k]]
  ELSE Append(registry, entry)

addCustomPattern(registry, name, config) ==
  mapSet(registry, [name |-> customKey(name),
                    regex |-> config.regex,
                    priority |-> config.priority,
                    category |-> config.category,
                    description |-> config.description])

\* ------------------------------------------------------------------------
\* TopicExtractor: state read through the fields' names
\* ------------------------------------------------------------------------

stopWords == stopWordsList

\* TopicExtractor.topicCategories: the entries of initializeTopicCategories,
\* with the entries addCustomCategory has set (a name that exists keeps its
\* place, a new name goes last)
topicCategories ==
  LET custom(name) == {k \in 1..Len(customCategories) : customCategories[k].name = name}
      builtinNames == {initialTopicCategories[k].name : k \in 1..Len(initialTopicCategories)}
  IN  [k \in 1..Len(initialTopicCategories) |->
         IF custom(initialTopicCategories[k].name) = {}
         THEN initialTopicCategories[k]
         ELSE customCategories[SetMin(custom(initialTopicCategories[k].name))]]
      \o SelectSeq(customCategories, LAMBDA c : c.name \notin builtinNames)

\* ------------------------------------------------------------------------
\* TopicExtractor.calculateWordFrequencies
\* ------------------------------------------------------------------------

\* replace(/[^\w]/g, '')
keepWordChars(s) == SelectSeq(s, isWordChar)

\* /^\d+$/.test(word)
isAllDigits(s) == Len(s) > 0 /\ \A k \in 1..Len(s) : s[k] \in Digits

\* (mutant of cleanWordsOf: stop words are kept)
cleanWordsOf_KeepStopWords(words) ==
  SelectSeq([k \in 1..Len(words) |-> keepWordChars(toLowerCase(words[k]))],
            LAMBDA word : /\ Len(word) > 2
                          /\ Len(word) < 20
                          /\ ~isAllDigits(word))

\* the map and filter of calculateWordFrequencies
cleanWordsOf(words) ==
  SelectSeq([k \in 1..Len(words) |-> keepWordChars(toLowerCase(words[k]))],
            LAMBDA word : /\ Len(word) > 2
                          /\ Len(word) < 20
                          /\ word \notin stopWords
                          /\ ~isAllDigits(word))

\* the Map freq as its entries in insertion order
calculateWordFrequencies(words) ==
  With(cleanWordsOf(words), LAMBDA cleanWords :
    With(uniqueOf(cleanWords), LAMBDA keys :
      [j \in 1..Len(keys) |->
         [word |-> keys[j],
          frequency |-> Cardinality({k \in 1..Len(cleanWords) : cleanWords[k] = keys[j]})]]))

\* ------------------------------------------------------------------------
\* TopicExtractor.calculateRelevanceScores
\* ------------------------------------------------------------------------

\* the indices (0-based) at which needle occurs in hay
occurrences(hay, needle) ==
  {i \in 0..(Len(hay) - Len(needle)) : SubSeq(hay, i + 1, i + Len(needle)) = needle}

\* String.prototype.includes
includes(hay, needle) ==
  \E i \in 0..(Len(hay) - Len(needle)) : SubSeq(hay, i + 1, i + Len(needle)) = needle

\* String.prototype.indexOf / lastIndexOf: -1 when there is no occurrence
firstIndexOf(hay, needle) ==
  With(occurrences(hay, needle), LAMBDA at : IF at = {} THEN -1 ELSE SetMin(at))

lastIndexOf(hay, needle) ==
  With(occurrences(hay, needle), LAMBDA at : IF at = {} THEN -1 ELSE SetMax(at))

\* this.domainKeywords.get(word) || 0.3, in thousandths
domainScoreOf(word) ==
  IF word \in DOMAIN domainKeywords THEN domainKeywords[word] ELSE 300

\* Math.min(0.3, (word.length - 3) * 0.05), in thousandths
lengthBonusOf(word) == Min(300, (Len(word) - 3) * 50)

\* firstIndex < textLength * 0.2 || lastIndex > textLength * 0.8 ? 0.1 : 0,
\* in thousandths (the products are compared as fifths of the length)
positionBonusOf(word, lowerText) ==
  IF \/ 5 * firstIndexOf(lowerText, word) < Len(lowerText)
     \/ 5 * lastIndexOf(lowerText, word) > 4 * Len(lowerText)
  THEN 100 ELSE 0

\* Number(relevance.toFixed(3)) of one entry, in thousandths:
\* (frequency / maxFreq) * 0.4 + domainScore * 0.4 + lengthBonus + positionBonus
relevanceOf(word, frequency, maxFreq, lowerText) ==
  toFixed(400 * frequency
            + ((domainScoreOf(word) * 4) \div 10 + lengthBonusOf(word)
                 + positionBonusOf(word, lowerText)) * maxFreq,
          maxFreq)

\* Array.prototype.sort by a key, largest first (stable): keys[k] is the
\* key of arr[k]; the result is the order of the indices
RECURSIVE sortedIndicesDesc(_, _)
sortedIndicesDesc(keys, k) ==
  IF k = 0 THEN <<>>
  ELSE With(sortedIndicesDesc(keys, k - 1), LAMBDA sorted :
         LET after == {p \in 1..Len(sorted) : keys[sorted[p]] < keys[k]}
             place == IF after = {} THEN Len(sorted) + 1 ELSE SetMin(after)
         IN  SubSeq(sorted, 1, place - 1) \o <<k>> \o SubSeq(sorted, place, Len(sorted)))

calculateRelevanceScores(wordFreq, text) ==
  With(toLowerCase(text), LAMBDA lowerText :
  With(IF Len(wordFreq) = 0 THEN 0
       ELSE SetMax({wordFreq[k].frequency : k \in 1..Len(wordFreq)}), LAMBDA maxFreq :
  With([k \in 1..Len(wordFreq) |->
          [word |-> wordFreq[k].word,
           frequency |-> wordFreq[k].frequency,
           relevance |-> relevanceOf(wordFreq[k].word, wordFreq[k].frequency,
                                     maxFreq, lowerText)]], LAMBDA scored :
    SelectSeq(pick(scored, sortedIndicesDesc([k \in 1..Len(scored) |-> scored[k].relevance],
                                             Len(scored))),
              LAMBDA item : item.relevance > 200))))

\* ------------------------------------------------------------------------
\* TopicExtractor.categorizeTopics
\* ------------------------------------------------------------------------

\* what one keyword adds to the score of a category, in half-thousandths:
\* its relevance for an exact match and half of it for every category word
\* that contains the keyword or is contained in it
keywordScoreIn(keyword, categoryWords) ==
  (IF indexOf(categoryWords, toLowerCase(keyword.word)) > 0 THEN 2 * keyword.relevance ELSE 0)
  + keyword.relevance
      * Cardinality({k \in 1..Len(categoryWords) :
                       \/ includes(keyword.word, categoryWords[k])
                       \/ includes(categoryWords[k], keyword.word)})

\* (mutant of categorizeTopics: the smallest score comes first)
categorizeTopics_LowestFirst(keywords) ==
  With(topicCategories, LAMBDA entries :
  With([c \in 1..Len(entries) |->
          [name |-> entries[c].name,
           score |-> sum([k \in 1..Len(keywords) |->
                            keywordScoreIn(keywords[k], entries[c].words)],
                         Len(keywords))]], LAMBDA all :
  With(SelectSeq(all, LAMBDA entry : entry.score > 0), LAMBDA categoryScores :
    pick(categoryScores,
         sortedIndicesDesc([k \in 1..Len(categoryScores) |-> 0 - categoryScores[k].score],
                           Len(categoryScores))))))

\* the Map the method returns as its entries in order: the categories with
\* a score above 0, largest score first
categorizeTopics(keywords) ==
  With(topicCategories, LAMBDA entries :
  With([c \in 1..Len(entries) |->
          [name |-> entries[c].name,
           score |-> sum([k \in 1..Len(keywords) |->
                            keywordScoreIn(keywords[k], entries[c].words)],
                         Len(keywords))]], LAMBDA all :
  With(SelectSeq(all, LAMBDA entry : entry.score > 0), LAMBDA categoryScores :
    pick(categoryScores,
         sortedIndicesDesc([k \in 1..Len(categoryScores) |-> categoryScores[k].score],
                           Len(categoryScores))))))

\* ------------------------------------------------------------------------
\* TopicExtractor.extractTopicHierarchy and extract
\* ------------------------------------------------------------------------

\* Array.prototype.slice(from, to) with 0 <= from <= to
slice(arr, from, to) == SubSeq(arr, from + 1, Min(to, Len(arr)))

wordsOf(keywords) == [k \in 1..Len(keywords) |-> keywords[k].word]

\* Array.from(categories.keys())
keysOf(categories) == [k \in 1..Len(categories) |-> categories[k].name]

\* (mutant of extractTopicHierarchy: the lists are concatenated as they are,
\* with no Set and no filter against primary)
extractTopicHierarchy_Concatenated(keywords, categories) ==
  [primary |-> wordsOf(SelectSeq(slice(keywords, 0, 5), LAMBDA k : k.relevance > 500))
                 \o slice(keysOf(categories), 0, 2),
   secondary |-> wordsOf(SelectSeq(slice(keywords, 5, 10), LAMBDA k : k.relevance > 300))
                   \o slice(keysOf(categories), 2, 4)]

extractTopicHierarchy(keywords, categories) ==
  With(uniqueOf(wordsOf(SelectSeq(slice(keywords, 0, 5), LAMBDA k : k.relevance > 500))
                  \o slice(keysOf(categories), 0, 2)), LAMBDA primary :
    [primary |-> primary,
     secondary |->
       SelectSeq(uniqueOf(wordsOf(SelectSeq(slice(keywords, 5, 10),
                                            LAMBDA k : k.relevance > 300))
                            \o slice(keysOf(categories), 2, 4)),
                 LAMBDA topic : indexOf(primary, topic) = 0)])

\* a result that keeps only the first three keywords
returnedKeywords_Top3(keywordScores) == slice(keywordScores, 0, 3)

\* keywordScores.slice(0, 15)
returnedKeywords(keywordScores) == slice(keywordScores, 0, 15)

\* Array.from(categories.keys()).slice(0, 5)
returnedCategories(categories) == slice(keysOf(categories), 0, 5)

extract(text, words) ==
  With(calculateWordFrequencies(words), LAMBDA wordFreq :
  With(calculateRelevanceScores(wordFreq, text), LAMBDA keywordScores :
  With(categorizeTopics(keywordScores), LAMBDA categories :
  With(extractTopicHierarchy(keywordScores, categories), LAMBDA hierarchy :
    [primary |-> hierarchy.primary,
     secondary |-> hierarchy.secondary,
     keywords |-> returnedKeywords(keywordScores),
     categories |-> returnedCategories(categories)]))))

\* the keywords given to addCustomCategory, as the entry it sets
addCustomCategory(custom, name, keywords) ==
  mapSet(custom, [name |-> name, words |-> keywords])

\* ------------------------------------------------------------------------
\* OfflineNLP.processText: the components it calls and the result it builds
\* ------------------------------------------------------------------------

\* TextPreprocessor.clean: surrounding whitespace removed and every run of
\* whitespace normalized to one space, the words unchanged
clean(text) == collapseWhitespace(trim(text))

\* TextPreprocessor.tokenize: the maximal runs of non-whitespace, in order,
\* their casing preserved
tokenize(text) ==
  LET indices == [k \in 1..Len(text) |-> k]
      starts == SelectSeq(indices, LAMBDA k :
                  ~isSpace(text[k]) /\ (k = 1 \/ isSpace(text[k - 1])))
      ends == SelectSeq(indices, LAMBDA k :
                ~isSpace(text[k]) /\ (k = Len(text) \/ isSpace(text[k + 1])))
  IN  [j \in 1..Len(starts) |-> SubSeq(text, starts[j], ends[j])]

\* the characters that end a sentence
SentenceEnders == {".", "!", "?"}

\* TextPreprocessor.splitSentences: the text cut after every run of
\* sentence-ending punctuation, a last piece without punctuation kept, each
\* piece trimmed and the empty pieces dropped
splitSentences(text) ==
  LET indices == [k \in 1..Len(text) |-> k]
      ends == SelectSeq(indices, LAMBDA k :
                \/ k = Len(text)
                \/ text[k] \in SentenceEnders /\ text[k + 1] \notin SentenceEnders)
      pieces == [j \in 1..Len(ends) |->
                   trim(SubSeq(text, IF j = 1 THEN 1 ELSE ends[j - 1] + 1, ends[j]))]
  IN  SelectSeq(pieces, LAMBDA piece : piece # <<>>)

\* InsightGenerator.generate: mood from the sentiment label, refined by the
\* score; energy from the number of action items; focus from the breadth of
\* the categories against the number of action items; at least one
\* recommendation
moodOf(sentiment) ==
  CASE sentiment.label = "positive" ->
         IF sentiment.score > 500 THEN "excited" ELSE "positive"
    [] sentiment.label = "negative" ->
         IF sentiment.score < -500 THEN "concerned" ELSE "negative"
    [] OTHER -> "neutral"

energyOf(actionItems) ==
  IF actionItems.totalCount >= 3 THEN "high"
  ELSE IF actionItems.totalCount = 0 THEN "low"
  ELSE "medium"

focusOf(topics, actionItems) ==
  IF Len(topics.categories) > actionItems.totalCount + 2 THEN "scattered"
  ELSE IF Len(topics.categories) <= 1 THEN "clear"
  ELSE "mixed"

recommendationsOf(sentiment, actionItems) ==
  <<"Keep capturing your thoughts">>
    \o (IF actionItems.totalCount > 0
        THEN <<"Review your action items">> ELSE <<>>)
    \o (IF sentiment.label = "negative"
        THEN <<"Take a moment for yourself">> ELSE <<>>)

generate(nlpResult) ==
  [mood |-> moodOf(nlpResult.sentiment),
   energy |-> energyOf(nlpResult.actionItems),
   focus |-> focusOf(nlpResult.topics, nlpResult.actionItems),
   recommendations |-> recommendationsOf(nlpResult.sentiment, nlpResult.actionItems),
   patterns |-> IF Len(nlpResult.topics.primary) > 0
                THEN <<"Recurring topics">> ELSE <<>>]

\* the result structure processText initializes
initialResult(text, processedText, words, sentences, options, timestamp) ==
  [originalText |-> text,
   processedText |-> processedText,
   wordCount |-> Len(words),
   sentenceCount |-> Len(sentences),
   sentiment |-> [score |-> 0, confidence |-> 0, label |-> "neutral",
                  breakdown |-> [positiveWords |-> <<>>, negativeWords |-> <<>>,
                                 intensifiers |-> <<>>, negators |-> <<>>]],
   actionItems |-> [items |-> <<>>, patterns |-> <<>>, totalCount |-> 0],
   topics |-> [primary |-> <<>>, secondary |-> <<>>,
               keywords |-> <<>>, categories |-> <<>>],
   insights |-> [mood |-> "neutral", energy |-> "medium", focus |-> "mixed",
                 recommendations |-> <<>>, patterns |-> <<>>],
   processingTime |-> 0,
   timestamp |-> timestamp,
   privacy |-> [dataProcessedLocally |-> TRUE,
                noExternalCalls |-> TRUE,
                noDataStored |-> options.storeResults # TRUE]]

\* the recommendations of the catch block
fallbackRecommendations ==
  <<"Text processed locally with basic analysis",
    "All processing completed on your device",
    "Your privacy is fully protected">>

\* the components processText calls before its try block
PreprocessorCalls == {"clean", "splitSentences", "tokenize"}

\* the four stages of the try block, in the order of the code
Stages == <<"sentiment", "actions", "topics", "insights">>

\* options?.skipSentiment and its like: an absent option is FALSE
skips(options, stage) ==
  CASE stage = "sentiment" -> options.skipSentiment
    [] stage = "actions" -> options.skipActionItems
    [] stage = "topics" -> options.skipTopics
    [] stage = "insights" -> options.skipInsights

\* options that skip no stage
noFlag(options) == \A j \in 1..Len(Stages) : ~skips(options, Stages[j])

\* (mutant of nextStageAfter: the flags are not read)
nextStageAfter_NoSkip(options, k) ==
  IF k < Len(Stages) THEN k + 1 ELSE 0

\* the first stage after stage k that the options do not skip, 0 if none is
\* left
nextStageAfter(options, k) ==
  LET later == {j \in (k + 1)..Len(Stages) : ~skips(options, Stages[j])}
  IN  IF later = {} THEN 0 ELSE SetMin(later)

\* the stage that processText calls next after stage k, if any
calledFrom(options, k) ==
  IF nextStageAfter(options, k) = 0 THEN {}
  ELSE {Stages[nextStageAfter(options, k)]}

\* result.<section> = <the awaited value>
withSection(result, stage, value) ==
  CASE stage = "sentiment" -> [result EXCEPT !.sentiment = value]
    [] stage = "actions" -> [result EXCEPT !.actionItems = value]
    [] stage = "topics" -> [result EXCEPT !.topics = value]
    [] stage = "insights" -> [result EXCEPT !.insights = value]

\* the private async wrapper of a stage, run up to its return: whether the
\* component returns at all, whether it throws (fault names the component
\* that throws in this step), the value and the registry it leaves
runStage(stage, call, result, registry, fault) ==
  IF fault = stage
  THEN [returns |-> TRUE, threw |-> TRUE, value |-> <<>>, registry |-> registry]
  ELSE CASE stage = "sentiment" ->
              [returns |-> TRUE, threw |-> FALSE,
               value |-> analyze(call.words), registry |-> registry]
         [] stage = "actions" ->
              With(detect(result.processedText, registry), LAMBDA d :
                [returns |-> d.returns, threw |-> FALSE,
                 value |-> d.value, registry |-> d.registry])
         [] stage = "topics" ->
              [returns |-> TRUE, threw |-> FALSE,
               value |-> extract(result.processedText, call.words),
               registry |-> registry]
         [] stage = "insights" ->
              [returns |-> TRUE, threw |-> FALSE,
               value |-> generate(result), registry |-> registry]

\* processText from its first statement up to the try block: the
\* preprocessing and the initial result, with the history of the call
\* (overlapped: another call is under way)
newCall(text, options, timestamp, overlapped) ==
  With(clean(text), LAMBDA processedText :
  With(splitSentences(processedText), LAMBDA sentences :
  With(tokenize(processedText), LAMBDA words :
    [text |-> text, options |-> options,
     words |-> words, sentences |-> sentences,
     pc |-> 0,
     result |-> initialResult(text, processedText, words, sentences,
                              options, timestamp),
     pending |-> [threw |-> FALSE, value |-> <<>>],
     ran |-> {}, thrown |-> "none",
     sawRegistration |-> FALSE, registered |-> {},
     overlapped |-> overlapped])))

\* processText from the statement after stage k up to its next await, or up
\* to its return when no stage is left
runFrom(call, k, result, registry, fault) ==
  With(nextStageAfter(call.options, k), LAMBDA j :
    IF j = 0
    THEN [kind |-> "return", registry |-> registry,
          call |-> [call EXCEPT !.result = result]]
    ELSE With(runStage(Stages[j], call, result, registry, fault), LAMBDA s :
           IF ~s.returns
           THEN [kind |-> "hang", registry |-> s.registry,
                 call |-> [call EXCEPT !.result = result]]
           ELSE [kind |-> "await", registry |-> s.registry,
                 call |-> [call EXCEPT
                             !.pc = j,
                             !.result = result,
                             !.pending = [threw |-> s.threw, value |-> s.value],
                             !.ran = @ \cup {Stages[j]},
                             !.thrown = IF s.threw THEN Stages[j] ELSE @]]))

\* (mutant of catchResult: the catch block sets the time only)
catchResult_TimeOnly(result, elapsed) ==
  [result EXCEPT !.processingTime = elapsed]

\* the statements of the catch block
catchResult(result, elapsed) ==
  [result EXCEPT !.processingTime = elapsed,
                 !.insights.recommendations = fallbackRecommendations]

\* result.processingTime = Date.now() - startTime
doneResult(result, elapsed) ==
  [result EXCEPT !.processingTime = elapsed]

\* a sequence without its i-th element
removeAt(arr, i) == SubSeq(arr, 1, i - 1) \o SubSeq(arr, i + 1, Len(arr))

\* a registration is seen by every call under way
markRegistration(inFlight) ==
  [i \in 1..Len(inFlight) |-> [inFlight[i] EXCEPT !.sawRegistration = TRUE]]

\* a pattern registered under a key that is new to the registry is recorded,
\* by its key, in every call under way
markPattern(inFlight, key, registry) ==
  IF \E k \in 1..Len(registry) : registry[k].name = key
  THEN inFlight
  ELSE [i \in 1..Len(inFlight) |-> [inFlight[i] EXCEPT !.registered = @ \cup {key}]]

\* a call that starts and suspends is under way together with the others
markOverlapped(inFlight) ==
  [i \in 1..Len(inFlight) |-> [inFlight[i] EXCEPT !.overlapped = TRUE]]
\* ------------------------------------------------------------------------
\* Inputs of the sentiment specification
\* ------------------------------------------------------------------------

\* the longest token sequence drawn exhaustively from SentTokens
MaxWords == 3

t_amazing == <<"a","m","a","z","i","n","g">>

t_Happy == <<"H","a","p","p","y">>

t_happy == <<"h","a","p","p","y">>

t_bad == <<"b","a","d">>

t_tired == <<"t","i","r","e","d">>

t_terrible == <<"t","e","r","r","i","b","l","e">>

t_very == <<"v","e","r","y">>

t_not == <<"n","o","t">>

t_never == <<"n","e","v","e","r">>

t_pretty == <<"p","r","e","t","t","y">>

t_stop == <<"s","t","o","p">>

t_the == <<"t","h","e">>

t_zen == <<"z","e","n">>

t_Zen == <<"Z","e","n">>

t_I == <<"I">>

t_am == <<"a","m">>

t_with == <<"w","i","t","h">>

t_results == <<"r","e","s","u","l","t","s">>

t_resultsComma == <<"r","e","s","u","l","t","s",",">>

t_this == <<"t","h","i","s">>

t_is == <<"i","s">>

\* one token of each kind: positive words of the 0.8 and 0.6 tiers (one of
\* them capitalised), negative words of the 0.6 and 0.4 tiers, an intensifier,
\* a negator, a word that is both positive and intensifier, a word that is
\* both negative and negator, a word in no vocabulary, and a word only
\* addCustomWords can add
SentTokens ==
  {t_amazing, t_Happy, t_bad, t_tired, t_very, t_not, t_pretty, t_stop, t_the,
   t_zen}

\* "very tired not very bad amazing amazing terrible amazing terrible amazing
\* terrible": nine scored words whose sum is 0.904
ScenarioNearThreshold ==
  <<t_very, t_tired, t_not, t_very, t_bad, t_amazing, t_amazing, t_terrible,
    t_amazing, t_terrible, t_amazing, t_terrible>>

\* "I am not happy with the results, this is terrible" split at white space
ScenarioNotHappy ==
  <<t_I, t_am, t_not, t_happy, t_with, t_the, t_resultsComma, t_this, t_is,
    t_terrible>>

\* the same sentence with its punctuation removed before the split
ScenarioNotHappyClean ==
  <<t_I, t_am, t_not, t_happy, t_with, t_the, t_results, t_this, t_is,
    t_terrible>>

\* three positive and two negative words: positiveRatio is exactly 0.6
ScenarioRatioSixTenths == <<t_amazing, t_bad, t_amazing, t_bad, t_amazing>>

\* two positive and three negative words: positiveRatio is exactly 0.4
ScenarioRatioFourTenths == <<t_bad, t_amazing, t_bad, t_amazing, t_bad>>

\* a negator three tokens before the only scored word
ScenarioFarNegator == <<t_not, t_the, t_the, t_Happy>>

SentScenarios ==
  {ScenarioNearThreshold, ScenarioNotHappy, ScenarioNotHappyClean,
   ScenarioRatioSixTenths, ScenarioRatioFourTenths, ScenarioFarNegator}

\* the lists addCustomWords is called with: none, a new word, a negator
CustomLists == {<<>>, <<t_Zen>>, <<t_not>>}

\* ------------------------------------------------------------------------
\* Inputs of the action-pattern specification
\* ------------------------------------------------------------------------

\* the configs addCustomPattern is called with, each but the last with a
\* fresh RegExp:
\* a high-priority pattern for a fragment no built-in pattern produces, a
\* high-priority pattern for the fragment of the low-priority someday_actions,
\* a low-priority pattern inside the fragment of the high-priority
\* urgent_tasks, a regex without the g flag, a regex that matches the
\* empty string, and a regex that its owner has used before (lastIndex 4)
cfgRemember ==
  [regex |-> [source |-> "rxRemember", global |-> TRUE, lastIndex |-> 0],
   priority |-> "high", category |-> "memo",
   description |-> "memo items"]

cfgDream ==
  [regex |-> [source |-> "rxDream", global |-> TRUE, lastIndex |-> 0],
   priority |-> "high", category |-> "dream",
   description |-> "dream items"]

cfgWeMust ==
  [regex |-> [source |-> "rxWeMust", global |-> TRUE, lastIndex |-> 0],
   priority |-> "low", category |-> "team",
   description |-> "team items"]

cfgNoGlobal ==
  [regex |-> [source |-> "rxNoGlobal", global |-> FALSE, lastIndex |-> 0],
   priority |-> "medium", category |-> "phone",
   description |-> "phone items"]

cfgEmpty ==
  [regex |-> [source |-> "rxEmpty", global |-> TRUE, lastIndex |-> 0],
   priority |-> "low", category |-> "filler",
   description |-> "filler items"]

cfgUsed ==
  [regex |-> [source |-> "rxRemember", global |-> TRUE, lastIndex |-> 4],
   priority |-> "medium", category |-> "note",
   description |-> "note items"]

CustomConfigs == {cfgRemember, cfgDream, cfgWeMust, cfgNoGlobal, cfgEmpty, cfgUsed}

CustomNames == {"trip", "rent"}

\* ------------------------------------------------------------------------
\* Inputs of the topic specification
\* ------------------------------------------------------------------------

t_Project == <<"P","r","o","j","e","c","t">>

t_familyBang == <<"f","a","m","i","l","y","!">>

t_learning == <<"l","e","a","r","n","i","n","g">>

t_book == <<"b","o","o","k">>

t_123 == <<"1","2","3">>

t_work == <<"w","o","r","k">>

t_zebra == <<"z","e","b","r","a">>

t_go == <<"g","o">>

\* a capitalised word of category work that is a domain keyword, a word with
\* punctuation, words of several categories, one of them inside other
\* category words, a word that is also the name of a category, and a word no
\* dictionary knows
TopicTokens ==
  {t_Project, t_familyBang, t_learning, t_book, t_work, t_zebra}

\* words the filter of calculateWordFrequencies drops (a stop word, digits
\* only, a word of two letters) around one it keeps
ScenarioFiltered == <<t_the, t_123, t_go, t_Project, t_the>>

\* nineteen different words that reach all eight categories
ScenarioManyTopics ==
  <<<<"p","r","o","j","e","c","t">>,
    <<"m","e","e","t","i","n","g">>,
    <<"d","e","a","d","l","i","n","e">>,
    <<"h","e","a","l","t","h">>,
    <<"d","o","c","t","o","r">>,
    <<"e","x","e","r","c","i","s","e">>,
    <<"f","a","m","i","l","y">>,
    <<"f","r","i","e","n","d">>,
    <<"l","e","a","r","n","i","n","g">>,
    <<"b","o","o","k">>,
    <<"m","o","n","e","y">>,
    <<"b","u","d","g","e","t">>,
    <<"c","o","m","p","u","t","e","r">>,
    <<"s","o","f","t","w","a","r","e">>,
    <<"h","o","u","s","e">>,
    <<"k","i","t","c","h","e","n">>,
    <<"t","r","a","v","e","l">>,
    <<"h","o","t","e","l">>,
    <<"z","e","b","r","a">>>>

\* the words of "work meeting project deadline"
WorkMeetingProjectDeadline ==
  <<t_work,
    <<"m","e","e","t","i","n","g">>,
    <<"p","r","o","j","e","c","t">>,
    <<"d","e","a","d","l","i","n","e">>>>

\* "work meeting project deadline" five times
ScenarioWorkTimes5 ==
  WorkMeetingProjectDeadline \o WorkMeetingProjectDeadline
    \o WorkMeetingProjectDeadline \o WorkMeetingProjectDeadline
    \o WorkMeetingProjectDeadline

\* a short word no dictionary knows, once in the middle of eight "project":
\* its relevance is 0.4 / 8 + 0.12 = 0.17
ScenarioLowRelevance ==
  <<t_Project, t_Project, t_Project, t_Project, t_zen,
    t_Project, t_Project, t_Project, t_Project>>

TopicScenarios ==
  {ScenarioFiltered, ScenarioManyTopics, ScenarioWorkTimes5, ScenarioLowRelevance}

\* the categories addCustomCategory is called with: a new name, and the
\* name of a category of initializeTopicCategories
CustomCategories ==
  {[name |-> <<"p","e","t","s">>, words |-> <<t_zebra>>],
   [name |-> <<"w","o","r","k">>, words |-> <<t_zebra, t_book>>]}

\* Array.prototype.join(' '): the text whose tokens the words are
RECURSIVE joinWords(_, _)
joinWords(words, k) ==
  IF k = 0 THEN <<>>
  ELSE IF k = 1 THEN words[1]
  ELSE With(joinWords(words, k - 1), LAMBDA head : head \o <<" ">> \o words[k])

\* ------------------------------------------------------------------------
\* Inputs of the pipeline specification
\* ------------------------------------------------------------------------

\* the number of processText calls under way at a time
MaxCalls == 2

\* the options of the calls: none, every stage but the sentiment stage, only
\* the action stage, and every stage skipped
optDefault ==
  [skipSentiment |-> FALSE, skipActionItems |-> FALSE, skipTopics |-> FALSE,
   skipInsights |-> FALSE, storeResults |-> FALSE]

optNoSentiment ==
  [skipSentiment |-> TRUE, skipActionItems |-> FALSE, skipTopics |-> FALSE,
   skipInsights |-> FALSE, storeResults |-> FALSE]

optActionsOnly ==
  [skipSentiment |-> TRUE, skipActionItems |-> FALSE, skipTopics |-> TRUE,
   skipInsights |-> TRUE, storeResults |-> TRUE]

optSkipAll ==
  [skipSentiment |-> TRUE, skipActionItems |-> TRUE, skipTopics |-> TRUE,
   skipInsights |-> TRUE, storeResults |-> FALSE]

\* the calls made: a text that clean changes and that two patterns match,
\* with every stage, with the action stage alone and with no stage; a text
\* with negated sentiment and no action item, with every stage and without
\* the sentiment stage; a text that a regex without the g flag matches, with
\* the action stage alone; and the empty text
PipelineCalls ==
  {[text |-> txtWeMust, options |-> optDefault],
   [text |-> txtWeMust, options |-> optActionsOnly],
   [text |-> txtWeMust, options |-> optSkipAll],
   [text |-> txtNotHappy, options |-> optDefault],
   [text |-> txtNotHappy, options |-> optNoSentiment],
   [text |-> txtCallJohn, options |-> optActionsOnly],
   [text |-> txtEmpty, options |-> optDefault]}

\* the component that throws in a step, if any
Faults == {"none"} \cup PreprocessorCalls \cup {Stages[j] : j \in 1..Len(Stages)}

\* what new Date().toISOString() gives at the start of a call
Timestamps == {"2024-01-01T00:00:00.000Z", "2024-01-01T00:00:00.007Z"}

\* what Date.now() - startTime gives at the end of a call, in milliseconds
ElapsedTimes == {0, 7}

\* the registrations made on the engine's pattern registry
PipelineConfigs == {cfgWeMust, cfgNoGlobal}

\* the calls made at the same time: two texts on which the shared regexes
\* match at different places and a text on which none matches
ConcurrentCalls ==
  {[text |-> txtWeMust, options |-> optDefault],
   [text |-> txtCallJohn, options |-> optActionsOnly],
   [text |-> txtNotHappy, options |-> optNoSentiment]}
\* ------------------------------------------------------------------------
\* Actions: the caller's input and the public methods of SentimentDictionary
\* ------------------------------------------------------------------------

InitSentiment ==
  /\ customPositive = {}
  /\ customNegative = {}

\* the caller extends its token sequence by one token
TypeToken(t) ==
  /\ Len(tokens) < MaxWords
  /\ tokens' = Append(tokens, t)
  /\ op' = "input"
  /\ ret' = <<>>
  /\ UNCHANGED <<sentimentVars, patternVars, topicVars, pipelineVars, inputText>>

\* the caller takes up a prepared token sequence
TakeScenario(s) ==
  /\ tokens = <<>>
  /\ tokens' = s
  /\ op' = "input"
  /\ ret' = <<>>
  /\ UNCHANGED <<sentimentVars, patternVars, topicVars, pipelineVars, inputText>>

Analyze ==
  /\ op' = "analyze"
  /\ ret' = analyze(tokens)
  /\ UNCHANGED <<tokens, sentimentVars, patternVars, topicVars, pipelineVars, inputText>>

\* SentimentDictionary.quickAnalyze(words) on the caller's token sequence
QuickAnalyze ==
  /\ op' = "quickAnalyze"
  /\ ret' = quickAnalyze(tokens)
  /\ UNCHANGED <<tokens, sentimentVars, patternVars, topicVars, pipelineVars, inputText>>

\* SentimentDictionary.addCustomWords(positive, negative)
AddCustomWords(positive, negative) ==
  /\ customPositive' = customPositive \cup addedWords(positive)
  /\ customNegative' = customNegative \cup addedWords(negative)
  /\ op' = "addCustomWords"
  /\ ret' = <<>>
  /\ calls' = markRegistration(calls)
  /\ UNCHANGED <<tokens, patternVars, topicVars, inputText>>

\* ------------------------------------------------------------------------
\* Actions: the public methods of ActionPatterns
\* ------------------------------------------------------------------------

InitPatterns ==
  patterns = initialPatterns

\* the caller takes up a text
TakeText(t) ==
  /\ op # "hung"
  /\ inputText # t
  /\ inputText' = t
  /\ op' = "input"
  /\ ret' = <<>>
  /\ UNCHANGED <<sentimentVars, patternVars, topicVars, pipelineVars, tokens>>

\* ActionPatterns.detect(text, sentences); a call whose findMatches loop
\* never ends leaves the program hung
Detect ==
  /\ op # "hung"
  /\ \E d \in {detect(inputText, patterns)} :
       /\ patterns' = d.registry
       /\ op' = IF d.returns THEN "detect" ELSE "hung"
       /\ ret' = d.value
  /\ UNCHANGED <<sentimentVars, topicVars, pipelineVars, tokens, inputText>>

\* ActionPatterns.hasActionItems(text); a call whose findMatches loop never
\* ends leaves the program hung
HasActionItems ==
  /\ op # "hung"
  /\ \E h \in {hasActionItems(inputText, patterns)} :
       /\ patterns' = h.registry
       /\ op' = IF h.returns THEN "hasActionItems" ELSE "hung"
       /\ ret' = h.value
  /\ UNCHANGED <<sentimentVars, topicVars, pipelineVars, tokens, inputText>>

\* ActionPatterns.addCustomPattern(name, config)
AddCustomPattern(name, config) ==
  /\ op # "hung"
  /\ patterns' = addCustomPattern(patterns, name, config)
  /\ op' = "addCustomPattern"
  /\ ret' = <<>>
  /\ calls' = markPattern(markRegistration(calls), customKey(name), patterns)
  /\ UNCHANGED <<sentimentVars, topicVars, tokens, inputText>>

\* ------------------------------------------------------------------------
\* Actions: the public methods of TopicExtractor
\* ------------------------------------------------------------------------

InitTopics ==
  customCategories = <<>>

\* TopicExtractor.extract(text, words) on a text and its words
Extract ==
  /\ op' = "extract"
  /\ ret' = extract(joinWords(tokens, Len(tokens)), tokens)
  /\ UNCHANGED <<sentimentVars, patternVars, topicVars, pipelineVars, tokens, inputText>>

\* TopicExtractor.addCustomCategory(name, keywords)
AddCustomCategory(name, keywords) ==
  /\ customCategories' = addCustomCategory(customCategories, name, keywords)
  /\ op' = "addCustomCategory"
  /\ ret' = <<>>
  /\ calls' = markRegistration(calls)
  /\ UNCHANGED <<sentimentVars, patternVars, tokens, inputText>>

\* ------------------------------------------------------------------------
\* Actions: OfflineNLP.processText, from await to await
\* ------------------------------------------------------------------------

InitPipeline ==
  calls = <<>>

\* the call settles right after another processText call that was
\* fulfilled, on the same text, with no component having thrown in either
\* and no registration made since the earlier of the two started
follows(call, status) ==
  /\ op = "processText"
  /\ status = "fulfilled"
  /\ ret.status = "fulfilled"
  /\ ret.call.text = call.text
  /\ ret.call.thrown = "none"
  /\ call.thrown = "none"
  /\ ~ret.call.sawRegistration
  /\ ~call.sawRegistration

\* what the caller of processText observes when the promise settles, with
\* the history of the call: its arguments, the component that threw, the
\* stages that were invoked, whether a registration was made while it was
\* under way and the keys of the patterns added to the registry meanwhile,
\* whether another call was under way at the same time, whether it repeats the call that settled just before it (same
\* text and options) and whether it follows a call on its text without
\* options
settled(call, status, value) ==
  [status |-> status,
   value |-> value,
   call |-> [text |-> call.text,
             options |-> call.options,
             thrown |-> call.thrown,
             ran |-> call.ran,
             sawRegistration |-> call.sawRegistration,
             registered |-> call.registered,
             overlapped |-> call.overlapped,
             repeated |-> follows(call, status) /\ ret.call.options = call.options,
             afterDefault |-> follows(call, status) /\ noFlag(ret.call.options)]]

\* the step of a call that has run up to its next await, to its return or
\* into a loop that never ends; i is the place of the call among the calls
\* under way, inFlight the calls under way as they are when the call suspends
Proceed(out, i, inFlight) ==
  /\ patterns' = out.registry
  /\ CASE out.kind = "await" ->
            /\ calls' = [k \in 1..Max(i, Len(inFlight)) |->
                           IF k = i THEN out.call ELSE inFlight[k]]
            /\ UNCHANGED <<op, ret>>
       [] out.kind = "return" ->
            /\ calls' = removeAt(calls, i)
            /\ op' = "processText"
            /\ \E elapsed \in ElapsedTimes :
                 ret' = settled(out.call, "fulfilled",
                                doneResult(out.call.result, elapsed))
       [] out.kind = "hang" ->
            /\ UNCHANGED calls
            /\ op' = "hung"
            /\ ret' = <<>>

\* processText(text, options) from its first statement to its first await:
\* the preprocessing, the initial result and the first stage that is not
\* skipped
ProcessText(text, options, fault, timestamp) ==
  /\ op # "hung"
  /\ Len(calls) < MaxCalls
  /\ fault \in calledFrom(options, 0) \cup PreprocessorCalls \cup {"none"}
  /\ IF fault \in PreprocessorCalls
     THEN /\ op' = "processText"
          /\ ret' = settled([text |-> text, options |-> options, thrown |-> fault,
                             ran |-> {}, sawRegistration |-> FALSE,
                             registered |-> {}, overlapped |-> FALSE],
                            "rejected", <<>>)
          /\ UNCHANGED <<patternVars, calls>>
     ELSE \E call \in {newCall(text, options, timestamp, calls # <<>>)} :
          \E out \in {runFrom(call, 0, call.result, patterns, fault)} :
            Proceed(out, Len(calls) + 1, markOverlapped(calls))
  /\ UNCHANGED <<sentimentVars, topicVars, tokens, inputText>>

\* the i-th call under way goes on after its await: the awaited value is
\* stored in its section and the call runs to its next await or to its
\* return; an awaited throw takes it through the catch block
Resume(i, fault) ==
  /\ op # "hung"
  /\ i \in 1..Len(calls)
  /\ fault \in calledFrom(calls[i].options, calls[i].pc) \cup {"none"}
  /\ IF calls[i].pending.threw
     THEN /\ calls' = removeAt(calls, i)
          /\ op' = "processText"
          /\ \E elapsed \in ElapsedTimes :
               ret' = settled(calls[i], "fulfilled",
                              catchResult(calls[i].result, elapsed))
          /\ UNCHANGED patternVars
     ELSE \E result \in {withSection(calls[i].result, Stages[calls[i].pc],
                                     calls[i].pending.value)} :
          \E out \in {runFrom(calls[i], calls[i].pc, result, patterns, fault)} :
            Proceed(out, i, calls)
  /\ UNCHANGED <<sentimentVars, topicVars, tokens, inputText>>
\* ------------------------------------------------------------------------
\* Specifications
\* ------------------------------------------------------------------------

\* the engine after construction, in the hands of a caller that has not yet
\* typed anything
Init ==
  /\ InitSentiment
  /\ InitPatterns
  /\ InitTopics
  /\ InitPipeline
  /\ tokens = <<>>
  /\ inputText = <<>>
  /\ op = "new"
  /\ ret = <<>>

\* the sentiment dictionary in the hands of its caller
NextSent ==
  \/ \E t \in SentTokens : TypeToken(t)
  \/ \E s \in SentScenarios : TakeScenario(s)
  \/ Analyze
  \/ QuickAnalyze
  \/ \E positive \in CustomLists, negative \in CustomLists :
       AddCustomWords(positive, negative)

SpecSent == Init /\ [][NextSent]_vars

\* the pattern registry in the hands of its caller
NextActions ==
  \/ \E t \in ActionTexts : TakeText(t)
  \/ Detect
  \/ HasActionItems
  \/ \E name \in CustomNames, config \in CustomConfigs :
       AddCustomPattern(name, config)

SpecActions == Init /\ [][NextActions]_vars

\* the topic extractor in the hands of its caller
NextTopics ==
  \/ \E t \in TopicTokens : TypeToken(t)
  \/ \E s \in TopicScenarios : TakeScenario(s)
  \/ Extract
  \/ \E c \in CustomCategories : AddCustomCategory(c.name, c.words)

SpecTopics == Init /\ [][NextTopics]_vars


\* the engine in the hands of callers that start a call when the one before
\* has settled and that register patterns at any time, also while a call is
\* suspended at an await
NextPipeline ==
  \/ /\ calls = <<>>
     /\ \E c \in PipelineCalls, fault \in Faults, timestamp \in Timestamps :
          ProcessText(c.text, c.options, fault, timestamp)
  \/ \E i \in 1..MaxCalls, fault \in Faults : Resume(i, fault)
  \/ \E config \in PipelineConfigs : AddCustomPattern("trip", config)

SpecPipeline == Init /\ [][NextPipeline]_vars

\* the engine in the hands of callers that start calls while others are
\* under way and let them go on from their awaits in any order; no component
\* throws and nothing is registered
NextConcurrent ==
  \/ \E c \in ConcurrentCalls, timestamp \in Timestamps :
       ProcessText(c.text, c.options, "none", timestamp)
  \/ \E i \in 1..MaxCalls : Resume(i, "none")

SpecConcurrent == Init /\ [][NextConcurrent]_vars
\* ------------------------------------------------------------------------
\* Claims about SentimentDictionary.analyze (checked under SpecSent)
\* ------------------------------------------------------------------------

\* position i of the token sequence is scored: the word is neither
\* intensifier nor negator and has a non-zero dictionary score
IsScoredAt(ws, i) ==
  LET word == toLowerCase(ws[i])
  IN  /\ word \notin intensifiers
      /\ word \notin negators
      /\ wordScoreOf(word) # 0

\* the token sequence without its i-th token
RemoveAt(ws, i) == SubSeq(ws, 1, i - 1) \o SubSeq(ws, i + 1, Len(ws))

\* the token sequence without any of its negators
WithoutNegators(ws) == SelectSeq(ws, LAMBDA w : toLowerCase(w) \notin negators)

\* C1: every result of analyze has a score in [-1, 1] and a confidence in
\* [0, 1] (in thousandths: [-1000, 1000] and [0, 1000]).
C1_ScoreAndConfidenceInRange ==
  op = "analyze" =>
    /\ ret.score >= -1000 /\ ret.score <= 1000
    /\ ret.confidence >= 0 /\ ret.confidence <= 1000

\* C1 witness: "bad bad very": both words count, the second one intensified,
\* and the confidence reaches its cap of 0.95
C1_Witness ==
  /\ op = "analyze"
  /\ tokens = <<t_bad, t_bad, t_very>>
  /\ ret.score = -660
  /\ ret.confidence = 950

\* C2: in every result of analyze the label is decided by the returned
\* (rounded) score: positive exactly when score > 0.1, negative exactly when
\* score < -0.1, neutral otherwise.
C2_LabelDecidedByReturnedScore ==
  op = "analyze" =>
    /\ (ret.label = "positive") <=> (ret.score > 100)
    /\ (ret.label = "negative") <=> (ret.score < -100)
    /\ (ret.label = "neutral") <=> (ret.score >= -100 /\ ret.score <= 100)

\* C3 as stated: when the only scored word is a positive word with a negator
\* among the two tokens before it, the score is <= 0 and the sequence with
\* that negator removed scores > 0.
C3_NegationFlipsSign_Original ==
  op = "analyze" =>
    \A i \in 1..Len(tokens) : \A j \in Max(1, i - 2)..(i - 1) :
      ( /\ IsScoredAt(tokens, i)
        /\ toLowerCase(tokens[i]) \in positiveWords
        /\ \A k \in 1..Len(tokens) : k # i => ~IsScoredAt(tokens, k)
        /\ toLowerCase(tokens[j]) \in negators )
      => /\ ret.score <= 0
         /\ analyze(RemoveAt(tokens, j)).score > 0

\* C3 amended: when the only scored word is a positive word with a negator
\* among the two tokens before it, the score is <= 0 and the sequence with
\* all of its negators removed scores > 0.
C3_NegationFlipsSign ==
  op = "analyze" =>
    \A i \in 1..Len(tokens) : \A j \in Max(1, i - 2)..(i - 1) :
      ( /\ IsScoredAt(tokens, i)
        /\ toLowerCase(tokens[i]) \in positiveWords
        /\ \A k \in 1..Len(tokens) : k # i => ~IsScoredAt(tokens, k)
        /\ toLowerCase(tokens[j]) \in negators )
      => /\ ret.score <= 0
         /\ analyze(WithoutNegators(tokens)).score > 0

\* C3 witness: "not the Happy": the negator is two tokens before the word
C3_Witness ==
  /\ op = "analyze"
  /\ tokens = <<t_not, t_the, t_Happy>>
  /\ ret.score = -480
  /\ analyze(<<t_the, t_Happy>>).score = 600

\* the score analyze returns for a single scored word of dictionary score
\* base whose multiplier is tenths/10: the product, clamped to [-1, 1]
IntensifiedScore(base, tenths) ==
  Max(-1000, Min(1000, (base * tenths) \div 10))

\* C4: for a single scored word w, [intensifier, w] has a score of strictly
\* greater magnitude than [w]; the multiplier is 1.3 for an intensifier just
\* before w, 1.2 for one only just after w, 1.3 for both.
C4_IntensifierRaisesMagnitude ==
  op = "analyze" =>
    /\ ( /\ Len(tokens) = 2
         /\ toLowerCase(tokens[1]) \in intensifiers
         /\ IsScoredAt(tokens, 2) )
       => /\ Abs(ret.score) > Abs(analyze(<<tokens[2]>>).score)
          /\ ret.score = IntensifiedScore(wordScoreOf(toLowerCase(tokens[2])), 13)
    /\ ( /\ Len(tokens) = 2
         /\ IsScoredAt(tokens, 1)
         /\ toLowerCase(tokens[2]) \in intensifiers )
       => ret.score = IntensifiedScore(wordScoreOf(toLowerCase(tokens[1])), 12)
    /\ ( /\ Len(tokens) = 3
         /\ toLowerCase(tokens[1]) \in intensifiers
         /\ IsScoredAt(tokens, 2)
         /\ toLowerCase(tokens[3]) \in intensifiers )
       => ret.score = IntensifiedScore(wordScoreOf(toLowerCase(tokens[2])), 13)

\* C4 witness: "very amazing": 0.8 * 1.3 = 1.04 is clamped to 1, still above
\* the 0.8 of "amazing" alone
C4_Witness ==
  /\ op = "analyze"
  /\ tokens = <<t_very, t_amazing>>
  /\ ret.score = 1000
  /\ analyze(<<t_amazing>>).score = 800


\* C17: analyze of the token sequence of "I am not happy with the results,
\* this is terrible" returns the label negative and a score below 0, lists
\* 'not' among the negators and 'terrible' among the negative words.
C17_NotHappyTerrible ==
  (op = "analyze" /\ tokens \in {ScenarioNotHappy, ScenarioNotHappyClean}) =>
    /\ ret.label = "negative"
    /\ ret.score < 0
    /\ \E k \in DOMAIN ret.breakdown.negators :
         ret.breakdown.negators[k] = t_not
    /\ \E k \in DOMAIN ret.breakdown.negativeWords :
         ret.breakdown.negativeWords[k] = t_terrible

\* C17 witness: the sentence split at white space is analyzed; the negated
\* 'happy' adds -0.48 and 'terrible' -0.8, so the score is -0.64
C17_Witness ==
  /\ op = "analyze"
  /\ tokens = ScenarioNotHappy
  /\ ret.label = "negative"
  /\ ret.score = -640
  /\ ret.breakdown.negators = <<t_not>>
  /\ ret.breakdown.negativeWords = <<t_terrible>>

\* the positions of the token sequence whose word is in the positive
\* vocabulary, and those whose word is in the negative vocabulary only
positiveHits(ws) == {i \in 1..Len(ws) : toLowerCase(ws[i]) \in positiveWords}

negativeHits(ws) ==
  {i \in 1..Len(ws) : /\ toLowerCase(ws[i]) \notin positiveWords
                       /\ toLowerCase(ws[i]) \in negativeWords}

\* C19: quickAnalyze counts the positive and negative hits whatever stands
\* around them; with no hit it returns neutral with confidence 0; otherwise
\* the label is positive when positiveCount / hits > 0.6, negative when it is
\* below 0.4 and neutral between, and the confidence is
\* min(0.9, 2 * hits / max(1, tokenCount)); the confidence is in [0, 0.9].
C19_QuickAnalyze ==
  op = "quickAnalyze" =>
    LET positiveCount == Cardinality(positiveHits(tokens))
        hits == positiveCount + Cardinality(negativeHits(tokens))
        tokenCount == Max(1, Len(tokens))
        c == ret.confidence
    IN  /\ hits = 0 => (ret.label = "neutral" /\ c.num = 0)
        /\ hits > 0 =>
             /\ ret.label = "positive" <=> 10 * positiveCount > 6 * hits
             /\ ret.label = "negative" <=> 10 * positiveCount < 4 * hits
             /\ ret.label \in {"positive", "negative", "neutral"}
             /\ 10 * tokenCount * c.num = c.den * Min(9 * tokenCount, 20 * hits)
        /\ c.den > 0 /\ c.num >= 0 /\ 10 * c.num <= 9 * c.den

\* C19 witness: "not Happy the": the negator changes nothing, the one
\* positive hit among three tokens gives positive with confidence 2/3
C19_Witness ==
  /\ op = "quickAnalyze"
  /\ tokens = <<t_not, t_Happy, t_the>>
  /\ ret = [label |-> "positive", confidence |-> [num |-> 2, den |-> 3]]

\* C25: in analyze, a token that is an intensifier or a negator is recorded
\* in the intensifiers or the negators of the breakdown (intensifiers first)
\* and is never scored or counted as a sentiment word, also when it is in
\* the positive or negative vocabulary or was added to it by addCustomWords:
\* the breakdown lists are those of the other tokens, and score and
\* confidence are those of the contributions of the other tokens.
C25_ModifiersNeverScored ==
  op = "analyze" =>
    \E lw \in {lowerWordsOf(tokens)} :
      LET modifier(w) == w \in intensifiers \cup negators
          scoredAt == {i \in 1..Len(lw) : ~modifier(lw[i]) /\ wordScoreOf(lw[i]) # 0}
          contributions ==
            [i \in 1..Len(lw) |->
               IF i \in scoredAt THEN adjustedScoreAt(lw, i, wordScoreOf(lw[i])) ELSE 0]
          totalScore == sum(contributions, Len(lw))
          normalizedScore == normalizedScoreOf(totalScore, Cardinality(scoredAt))
          confidence == confidenceOf(totalScore, Cardinality(scoredAt), Len(tokens))
      IN  /\ ret.breakdown.intensifiers = SelectSeq(lw, LAMBDA w : w \in intensifiers)
          /\ ret.breakdown.negators
               = SelectSeq(lw, LAMBDA w : w \notin intensifiers /\ w \in negators)
          /\ ret.breakdown.positiveWords
               = SelectSeq(lw, LAMBDA w : ~modifier(w) /\ w \in positiveWords)
          /\ ret.breakdown.negativeWords
               = SelectSeq(lw, LAMBDA w : /\ ~modifier(w)
                                         /\ w \notin positiveWords
                                         /\ w \in negativeWords)
          /\ ret.score = toFixed(normalizedScore.num, normalizedScore.den)
          /\ ret.confidence = toFixed(confidence.num, confidence.den)

\* C25 witness: "pretty stop not" after addCustomWords(['not'], []):
\* 'pretty' is positive and intensifier, 'stop' negative and negator, 'not'
\* a negator added to the positive vocabulary; nothing is scored
C25_Witness ==
  /\ op = "analyze"
  /\ tokens = <<t_pretty, t_stop, t_not>>
  /\ t_not \in customPositive
  /\ t_pretty \in positiveWords /\ t_stop \in negativeWords
  /\ ret.breakdown = [positiveWords |-> <<>>, negativeWords |-> <<>>,
                      intensifiers |-> <<t_pretty>>, negators |-> <<t_stop, t_not>>]
  /\ ret.score = 0
  /\ ret.confidence = 0

\* C26: a sentiment word at position i is negated exactly when a negator is
\* at i-1 or i-2; a negator further back or after the word has no effect,
\* two negators in the window negate once, and the negated contribution is
\* -base * 0.8, to which the intensifier multiplier is then applied. Stated
\* on the sequences with one scored word, whose contribution is the score.
C26_NegationWindow ==
  op = "analyze" =>
    \A i \in 1..Len(tokens) :
      ( /\ IsScoredAt(tokens, i)
        /\ \A k \in 1..Len(tokens) : k # i => ~IsScoredAt(tokens, k) )
      => \E lw \in {lowerWordsOf(tokens)} :
           LET base == wordScoreOf(lw[i])
               inWindow == {j \in {i - 2, i - 1} : j >= 1 /\ lw[j] \in negators}
               tenths == intensityMultiplierAt(lw, i)
               contribution == IF inWindow # {}
                               THEN 0 - ((base * 8 * tenths) \div 100)
                               ELSE (base * tenths) \div 10
           IN  ret.score = Max(-1000, Min(1000, contribution))

\* C26 witness: "not not Happy": two negators in the window of the only
\* scored word, and the score is -0.6 * 0.8
C26_Witness ==
  /\ op = "analyze"
  /\ tokens = <<t_not, t_not, t_Happy>>
  /\ ret.score = -480
  /\ ret.breakdown.negators = <<t_not, t_not>>

\* the list of the breakdown a lower-cased token is classified into, "none"
\* for a token in no vocabulary
classOf(w) ==
  IF w \in intensifiers THEN "intensifiers"
  ELSE IF w \in negators THEN "negators"
  ELSE IF w \in positiveWords THEN "positiveWords"
  ELSE IF w \in negativeWords THEN "negativeWords"
  ELSE "none"

\* C29: in every result of analyze the breakdown partitions the classified
\* tokens: positiveWords and negativeWords together are as many as the words
\* that contributed to the score, a word is listed under its dictionary
\* polarity also when negation flipped its contribution, and the four lists
\* together hold each classified token exactly once, in token order.
C29_BreakdownPartitionsTokens ==
  op = "analyze" =>
    \E lw \in {lowerWordsOf(tokens)} :
      LET bd == ret.breakdown
          lists == {"intensifiers", "negators", "positiveWords", "negativeWords"}
          classified == {i \in 1..Len(lw) : classOf(lw[i]) # "none"}
      IN  /\ Len(bd.positiveWords) + Len(bd.negativeWords)
               = Cardinality({i \in 1..Len(tokens) : IsScoredAt(tokens, i)})
          /\ \A i \in 1..Len(lw) :
               (IsScoredAt(tokens, i) /\ isNegatedAt(lw, i)) =>
                 IF lw[i] \in positiveWords
                 THEN indexOf(bd.positiveWords, lw[i]) > 0
                 ELSE indexOf(bd.negativeWords, lw[i]) > 0
          /\ Len(bd.intensifiers) + Len(bd.negators) + Len(bd.positiveWords)
               + Len(bd.negativeWords) = Cardinality(classified)
          /\ \A c \in lists : bd[c] = SelectSeq(lw, LAMBDA w : classOf(w) = c)

\* C29 witness: "not Happy bad": both scored words are negated, 'happy'
\* stays among the positive and 'bad' among the negative words
C29_Witness ==
  /\ op = "analyze"
  /\ tokens = <<t_not, t_Happy, t_bad>>
  /\ ret.breakdown = [positiveWords |-> <<t_happy>>, negativeWords |-> <<t_bad>>,
                      intensifiers |-> <<>>, negators |-> <<t_not>>]
  /\ ret.score <= 0

\* ------------------------------------------------------------------------
\* Claims about ActionPatterns.detect (checked under SpecActions)
\* ------------------------------------------------------------------------

\* the pattern results in which a fragment occurs
ProducersOf(item, patternResults) ==
  {k \in 1..Len(patternResults) : indexOf(patternResults[k].matches, item) > 0}

\* a fragment that some pattern produced and that only patterns of the given
\* priority produced
ProducedOnlyBy(item, priority, patternResults) ==
  /\ ProducersOf(item, patternResults) # {}
  /\ \A k \in ProducersOf(item, patternResults) : patternResults[k].priority = priority

\* C5: for every text and every registry content, the items list that detect
\* returns has no duplicate strings and every item's length is in [10, 200).
C5_ItemsUniqueAndBounded ==
  op = "detect" =>
    /\ \A i, j \in 1..Len(ret.items) : ret.items[i] = ret.items[j] => i = j
    /\ \A i \in 1..Len(ret.items) :
         Len(ret.items[i]) >= 10 /\ Len(ret.items[i]) < 200

\* C5 witness: detect returned on a registry with a custom pattern, one
\* fragment was produced by two patterns, and the items list holds it once
\* next to another fragment
C5_Witness ==
  /\ op = "detect"
  /\ Len(patterns) > Len(initialPatterns)
  /\ Len(ret.items) >= 2
  /\ \E i \in 1..Len(ret.items) :
       Cardinality(ProducersOf(ret.items[i], ret.patterns)) >= 2

\* C6: in the items list that detect returns, a fragment produced only by
\* high-priority patterns comes before every fragment produced only by
\* low-priority patterns, whatever their lengths and the scan order.
C6_HighOnlyBeforeLowOnly ==
  op = "detect" =>
    \A i, j \in 1..Len(ret.items) :
      ( /\ ProducedOnlyBy(ret.items[i], "high", ret.patterns)
        /\ ProducedOnlyBy(ret.items[j], "low", ret.patterns) ) => i < j

\* C6 witness: detect returned a high-only fragment and a longer low-only
\* fragment whose pattern was scanned first
C6_Witness ==
  /\ op = "detect"
  /\ \E i, j \in 1..Len(ret.items) :
       /\ ProducedOnlyBy(ret.items[i], "high", ret.patterns)
       /\ ProducedOnlyBy(ret.items[j], "low", ret.patterns)
       /\ Len(ret.items[j]) > Len(ret.items[i])
       /\ \E a \in ProducersOf(ret.items[j], ret.patterns) :
            \A b \in ProducersOf(ret.items[i], ret.patterns) : a < b

\* a regex whose exec loop in findMatches cannot be relied on to end: it
\* lacks the g flag, or it can match the empty string
pathological(regex) ==
  \/ ~regex.global
  \/ matchFrom(regex.source, txtEmpty, 0) # <<>>

\* C12: addCustomPattern rejects a malformed or pathological regex (one
\* without the global flag, or one that can match the empty string) at
\* registration time and leaves the registry unchanged: no entry of the
\* registry ever holds such a regex.
C12_PathologicalRegexRejected ==
  \A k \in 1..Len(patterns) : ~pathological(patterns[k].regex)

\* two registries with the same names in the same order and, under each
\* name, the same regex (lastIndex apart), priority, category and description
sameButLastIndex(before, after) ==
  /\ Len(after) = Len(before)
  /\ \A k \in 1..Len(before) :
       [after[k] EXCEPT !.regex.lastIndex = 0]
         = [before[k] EXCEPT !.regex.lastIndex = 0]

\* C15: The pattern registry is not mutated by analysis. After a detect or
\* hasActionItems call that returns, the pattern names and each entry's
\* regex, priority, category and description are the same as before the
\* call, and the lastIndex of every regex is 0.
C15_RegistryUnchangedByAnalysis ==
  [][ op' \in {"detect", "hasActionItems"} =>
        /\ sameButLastIndex(patterns, patterns')
        /\ \A k \in 1..Len(patterns') : patterns'[k].regex.lastIndex = 0 ]_vars

\* hasActionItems has returned on a text in which built-in regexes and a
\* custom regex matched, the custom regex having been registered with a
\* lastIndex of 4
C15_Witness ==
  /\ op = "hasActionItems"
  /\ inputText = txtSomeday
  /\ ret.count >= 2
  /\ \E k \in 1..Len(patterns) :
       /\ patterns[k].category = "note"
       /\ patterns[k].regex.lastIndex = 0

\* the raw matches of a registry entry in a text
rawMatches(text, entry) == findMatches(text, entry.regex).matches

\* C20: hasActionItems returns count = the number of raw regex matches over
\* all registered patterns, hasActions = (count > 0) and confidence =
\* min(0.95, 0.3*count + 0.5*highPriorityMatches), the latter being the
\* matches of the high-priority patterns; the confidence is 0 exactly when
\* hasActions is false and it never exceeds 0.95.
C20_HasActionItemsResult ==
  op = "hasActionItems" =>
    LET high == {k \in 1..Len(patterns) : patterns[k].priority = "high"}
        counts == [k \in 1..Len(patterns) |-> Len(rawMatches(inputText, patterns[k]))]
        highCounts == [k \in 1..Len(patterns) |-> IF k \in high THEN counts[k] ELSE 0]
        highPriorityMatches == sum(highCounts, Len(patterns))
    IN  /\ ret.count = sum(counts, Len(patterns))
        /\ ret.hasActions = (ret.count > 0)
        /\ 1000 * ret.confidence
             = Min(950 * 1000, 1000 * (300 * ret.count + 500 * highPriorityMatches))
        /\ (ret.confidence = 0) = ~ret.hasActions
        /\ ret.confidence <= 950

\* hasActionItems has returned on a text with a high-priority match and
\* another match, with the confidence at its cap, the registry holding a
\* custom pattern
C20_Witness ==
  /\ op = "hasActionItems"
  /\ inputText = txtWeMust
  /\ ret.count >= 2
  /\ ret.hasActions
  /\ ret.confidence = 950
  /\ Len(patterns) > Len(initialPatterns)

\* C22: detect keeps a cleaned match in a pattern's match set exactly when
\* its length L satisfies 10 <= L < 200 and it is the first occurrence of its
\* string among the pattern's cleaned matches; a cleaned match of length 10
\* is kept, one of length 200 is not.
C22_KeptExactlyWhenInRange ==
  op = "detect" =>
    \A k \in 1..Len(patterns) :
      \E arr \in {[m \in 1..Len(rawMatches(inputText, patterns[k])) |->
                    cleanMatch(rawMatches(inputText, patterns[k])[m])]} :
        LET kept == pick(arr, SelectSeq([m \in 1..Len(arr) |-> m],
                                        LAMBDA m : /\ Len(arr[m]) >= 10
                                                   /\ Len(arr[m]) < 200
                                                   /\ indexOf(arr, arr[m]) = m))
            results == {p \in 1..Len(ret.patterns) :
                          ret.patterns[p].pattern = patterns[k].name}
        IN  IF kept = <<>> THEN results = {}
            ELSE \E p \in results : ret.patterns[p].matches = kept

\* the priority score of a fragment: the largest of high = 3, medium = 2,
\* low = 1 over the patterns whose match set contains it
scoreOfFragment(item, patternResults) ==
  LET scores == {IF patternResults[k].priority = "high" THEN 3
                 ELSE IF patternResults[k].priority = "medium" THEN 2 ELSE 1 :
                   k \in ProducersOf(item, patternResults)}
  IN  CHOOSE s \in scores : \A t \in scores : t <= s

\* C23: the items list that detect returns is ordered by priority score
\* descending, then by length descending: for positions i < j, the score of
\* items[i] is greater than that of items[j], or they are equal and items[i]
\* is at least as long as items[j].
C23_ItemsOrderedByScoreThenLength ==
  op = "detect" =>
    \A i, j \in 1..Len(ret.items) :
      i < j =>
        \E si \in {scoreOfFragment(ret.items[i], ret.patterns)},
           sj \in {scoreOfFragment(ret.items[j], ret.patterns)} :
          \/ si > sj
          \/ si = sj /\ Len(ret.items[i]) >= Len(ret.items[j])

\* C23 witness: detect returned a fragment that patterns of different
\* priorities produced, the one of lower priority scanned last, in front of
\* a longer fragment whose score is below the higher and not below the lower
\* of the two
C23_Witness ==
  /\ op = "detect"
  /\ \E i, j \in 1..Len(ret.items) :
       /\ i < j
       /\ Len(ret.items[i]) < Len(ret.items[j])
       /\ \E a, b \in ProducersOf(ret.items[i], ret.patterns) :
            /\ a < b
            /\ priorityScore(ret.patterns[a].priority)
                 > scoreOfFragment(ret.items[j], ret.patterns)
            /\ scoreOfFragment(ret.items[j], ret.patterns)
                 >= priorityScore(ret.patterns[b].priority)

\* C24: every detect and hasActionItems call terminates: for every pattern
\* of the registry, built-in or registered through addCustomPattern (also
\* one without the g flag or one that matches the empty string), the exec
\* loop of findMatches reaches null. No call is ever left that did not
\* return.
C24_EveryCallTerminates ==
  op # "hung"

\* C30: in every result of detect, totalCount is the length of items, every
\* entry of patterns has a non-empty matches list without duplicates and the
\* priority of the registry entry of its name, and the strings of items are
\* exactly the strings of the matches lists of all entries of patterns.
C30_DetectResultConsistent ==
  op = "detect" =>
    /\ ret.totalCount = Len(ret.items)
    /\ \A p \in 1..Len(ret.patterns) :
         /\ ret.patterns[p].matches # <<>>
         /\ \A a, b \in 1..Len(ret.patterns[p].matches) :
              ret.patterns[p].matches[a] = ret.patterns[p].matches[b] => a = b
         /\ \E k \in 1..Len(patterns) :
              /\ patterns[k].name = ret.patterns[p].pattern
              /\ patterns[k].priority = ret.patterns[p].priority
    /\ {ret.items[i] : i \in 1..Len(ret.items)}
         = UNION {{ret.patterns[p].matches[m] : m \in 1..Len(ret.patterns[p].matches)} :
                    p \in 1..Len(ret.patterns)}

\* C30 witness: on "I need to call John urgently about the deadline
\* tomorrow" three patterns have a result and there are two items
C30_Witness ==
  /\ op = "detect"
  /\ inputText = txtCallJohn
  /\ Len(ret.patterns) = 3
  /\ ret.totalCount = 2
  /\ Len(ret.items) = 2

\* ------------------------------------------------------------------------
\* Claims about TopicExtractor.extract (checked under SpecTopics)
\* ------------------------------------------------------------------------

\* the elements of a sequence
Elements(arr) == {arr[k] : k \in 1..Len(arr)}

\* C7: for every input, each element of the primary and secondary lists that
\* extract returns is the word of an entry of the returned keywords list or a
\* member of the returned categories list.
C7_TopicsContained ==
  op = "extract" =>
    Elements(ret.primary) \cup Elements(ret.secondary)
      \subseteq Elements(wordsOf(ret.keywords)) \cup Elements(ret.categories)

\* C7 witness: extract returned 15 keywords and 5 categories (it had more of
\* both), its primary list holds five keywords and two categories, and its
\* secondary list holds keywords and a category as well
C7_Witness ==
  /\ op = "extract"
  /\ tokens = ScenarioManyTopics
  /\ Len(ret.keywords) = 15
  /\ Len(ret.categories) = 5
  /\ Len(ret.primary) = 7
  /\ Elements(ret.secondary) \cap Elements(ret.categories) # {}
  /\ Elements(ret.secondary) \cap Elements(wordsOf(ret.keywords)) # {}

\* the scored categories of a text and its words, as extract computes them
\* before it keeps the names only
categoryScoresOf(text, words) ==
  categorizeTopics(calculateRelevanceScores(calculateWordFrequencies(words), text))

\* no category of initializeTopicCategories has been replaced by
\* addCustomCategory
workAsShipped ==
  \A k \in 1..Len(customCategories) : customCategories[k].name # t_work

\* C18: for "work meeting project deadline" five times, the categories
\* extract returns start with "work", and the score of the work category is
\* strictly above the score of every other category.
C18_WorkRankedFirst ==
  (op = "extract" /\ tokens = ScenarioWorkTimes5 /\ workAsShipped) =>
    /\ Len(ret.categories) >= 1
    /\ ret.categories[1] = t_work
    /\ \E scores \in {categoryScoresOf(joinWords(tokens, Len(tokens)), tokens)} :
         /\ scores[1].name = t_work
         /\ \A k \in 2..Len(scores) : scores[k].score < scores[1].score

\* C18 witness: the scenario has been extracted, and besides work another
\* category has a score through the substring rule
C18_Witness ==
  /\ op = "extract"
  /\ tokens = ScenarioWorkTimes5
  /\ workAsShipped
  /\ joinWords(tokens, Len(tokens)) = txtWorkTimes5
  /\ ret.categories[1] = t_work
  /\ Len(ret.categories) >= 2

\* no element of the sequence occurs twice
duplicateFree(arr) == \A i, j \in 1..Len(arr) : arr[i] = arr[j] => i = j

\* C21: in every result of extract, primary and secondary have no element
\* in common, neither holds an element twice (also when a keyword is spelled
\* like a category name), and each has at most 7 elements.
C21_PrimarySecondaryDisjoint ==
  op = "extract" =>
    /\ Elements(ret.primary) \cap Elements(ret.secondary) = {}
    /\ duplicateFree(ret.primary)
    /\ duplicateFree(ret.secondary)
    /\ Len(ret.primary) <= 7
    /\ Len(ret.secondary) <= 7

\* C21 witness: 'work' is among the first five keywords and is the name of
\* the first category, and primary holds it once
C21_Witness ==
  /\ op = "extract"
  /\ tokens = ScenarioWorkTimes5
  /\ \E k \in 1..Len(ret.keywords) :
       k <= 5 /\ ret.keywords[k].word = t_work /\ ret.keywords[k].relevance > 500
  /\ ret.categories[1] = t_work
  /\ Cardinality({k \in 1..Len(ret.primary) : ret.primary[k] = t_work}) = 1
  /\ ret.secondary # <<>>

\* C28: in every result of extract, the keywords list has at most 15
\* entries, is sorted by non-increasing relevance and holds only words of
\* relevance > 0.2, frequency >= 1 and length in [3, 20) that are neither
\* stop words nor digits only; the categories list has at most 5 entries,
\* each of a strictly positive score, in non-increasing order of score.
C28_KeywordsAndCategoriesBounded ==
  op = "extract" =>
    /\ Len(ret.keywords) <= 15
    /\ \A i, j \in 1..Len(ret.keywords) :
         i < j => ret.keywords[i].relevance >= ret.keywords[j].relevance
    /\ \A i \in 1..Len(ret.keywords) :
         /\ ret.keywords[i].relevance > 200
         /\ ret.keywords[i].frequency >= 1
         /\ Len(ret.keywords[i].word) >= 3
         /\ Len(ret.keywords[i].word) < 20
         /\ ret.keywords[i].word \notin stopWords
         /\ \E c \in 1..Len(ret.keywords[i].word) :
              ret.keywords[i].word[c] \notin Digits
    /\ Len(ret.categories) <= 5
    /\ \E scores \in {categoryScoresOf(joinWords(tokens, Len(tokens)), tokens)} :
         /\ Len(ret.categories) <= Len(scores)
         /\ \A i \in 1..Len(ret.categories) :
              /\ ret.categories[i] = scores[i].name
              /\ scores[i].score > 0
         /\ \A i, j \in 1..Len(ret.categories) :
              i < j => scores[i].score >= scores[j].score

\* C28 witness: of nineteen words fifteen are returned, the first of a
\* higher relevance than the last, with five of more than five categories
C28_Witness ==
  /\ op = "extract"
  /\ tokens = ScenarioManyTopics
  /\ Len(ret.keywords) = 15
  /\ ret.keywords[1].relevance > ret.keywords[15].relevance
  /\ Len(ret.categories) = 5
  /\ Len(categoryScoresOf(joinWords(tokens, Len(tokens)), tokens)) > 5
\* ------------------------------------------------------------------------
\* Claims on OfflineNLP.processText
\* ------------------------------------------------------------------------

\* a result without the two fields that depend on the clock
withoutClock(result) ==
  [result EXCEPT !.processingTime = 0, !.timestamp = ""]

\* C8: Determinism across calls. When a processText call settles right
\* after another processText call on the same engine settled, both with the
\* same text and the same options, both fulfilled, no component having
\* thrown in either and no registration made since the earlier of the two
\* started, the two results are equal in every field except processingTime
\* and timestamp; the state the first call leaves in the engine (the
\* lastIndex of the shared regexes) does not reach the second.
C8_RepeatedCallSameResult ==
  [][ ( /\ op = "processText"
        /\ op' = "processText"
        /\ ret.status = "fulfilled"
        /\ ret'.status = "fulfilled"
        /\ ret'.call.text = ret.call.text
        /\ ret'.call.options = ret.call.options
        /\ ret.call.thrown = "none"
        /\ ret'.call.thrown = "none"
        /\ ~ret.call.sawRegistration
        /\ ~ret'.call.sawRegistration )
      => withoutClock(ret'.value) = withoutClock(ret.value) ]_vars

\* a call settles that repeats the one before it, on a text in which the
\* shared regexes matched, at another time and with a custom pattern in the
\* registry
C8_Witness ==
  /\ op = "processText"
  /\ ret.call.repeated
  /\ ret.call.text = txtWeMust
  /\ ret.call.options = optDefault
  /\ Len(ret.value.actionItems.items) > 1
  /\ ret.value.processingTime = 7
  /\ Len(patterns) > Len(initialPatterns)

\* C9: processText never propagates an internal exception. Whatever
\* component throws during a call (clean, splitSentences or tokenize of the
\* preprocessor, or the sentiment, action, topic or insight stage), the
\* promise of the call is fulfilled with a result object, never rejected.
C9_NeverRejects ==
  op = "processText" => ret.status = "fulfilled"

\* the later stages of a stage that the options of a call do not skip
laterEnabled(options, stage) ==
  {Stages[j] : j \in {k \in 1..Len(Stages) :
                        /\ \E i \in 1..(k - 1) : Stages[i] = stage
                        /\ ~skips(options, Stages[k])}}

\* the section of a stage in a result
sectionOf(result, stage) ==
  CASE stage = "sentiment" -> result.sentiment
    [] stage = "actions" -> result.actionItems
    [] stage = "topics" -> result.topics
    [] stage = "insights" -> result.insights

\* C10: Per-stage failure isolation. When the sentiment, action or topic
\* stage (and no other component) throws during a processText call, the
\* returned result has that stage's section at its defaults and every later
\* stage that the options do not skip has been invoked.
C10_LaterStagesStillRun ==
  ( /\ op = "processText"
    /\ ret.status = "fulfilled"
    /\ ret.call.thrown \in {"sentiment", "actions", "topics"} )
  => /\ sectionOf(ret.value, ret.call.thrown)
          = sectionOf(initialResult(<<>>, <<>>, <<>>, <<>>, optDefault, ""),
                      ret.call.thrown)
     /\ laterEnabled(ret.call.options, ret.call.thrown) \subseteq ret.call.ran

\* the section of a stage as processText initializes it
defaultSection(stage) ==
  sectionOf(initialResult(<<>>, <<>>, <<>>, <<>>, optDefault, ""), stage)

\* a call that no throw and no registration has touched
undisturbed(settledCall) ==
  /\ settledCall.status = "fulfilled"
  /\ settledCall.call.thrown = "none"
  /\ ~settledCall.call.sawRegistration

\* in every settled call, a stage whose flag is set has not been invoked and
\* its section is the initial default
skippedStagesAtDefault ==
  (op = "processText" /\ ret.status = "fulfilled") =>
    \A j \in 1..Len(Stages) :
      skips(ret.call.options, Stages[j]) =>
        /\ Stages[j] \notin ret.call.ran
        /\ sectionOf(ret.value, Stages[j]) = defaultSection(Stages[j])

\* the same, with the insights section of a call in which a stage threw
\* being the default but for the recommendations of the catch block
skippedStagesAtDefaultOrFallback ==
  (op = "processText" /\ ret.status = "fulfilled") =>
    \A j \in 1..Len(Stages) :
      skips(ret.call.options, Stages[j]) =>
        /\ Stages[j] \notin ret.call.ran
        /\ sectionOf(ret.value, Stages[j]) =
             IF Stages[j] = "insights" /\ ret.call.thrown # "none"
             THEN [defaultSection("insights") EXCEPT
                     !.recommendations = fallbackRecommendations]
             ELSE defaultSection(Stages[j])

\* a call with flags settles right after a call without flags on the same
\* text, both undisturbed: the sections of the given stages that the flags
\* do not skip are the same in both results
sameAsWithoutFlags(stages) ==
  ( /\ op = "processText"
    /\ op' = "processText"
    /\ undisturbed(ret)
    /\ undisturbed(ret')
    /\ ret'.call.text = ret.call.text
    /\ noFlag(ret.call.options) )
  => \A stage \in stages :
       ~skips(ret'.call.options, stage) =>
         sectionOf(ret'.value, stage) = sectionOf(ret.value, stage)

\* C11 (as stated): Skip flags. A stage whose flag is set is never invoked
\* and its section equals the initial default, while the sections of all
\* the stages that are not skipped are the same as when no flag is set.
C11_SkipFlags_Original ==
  /\ []skippedStagesAtDefault
  /\ [][sameAsWithoutFlags({"sentiment", "actions", "topics", "insights"})]_vars

\* C11 (amended): Skip flags. A stage whose flag is set is never invoked
\* and its section equals the initial default, except that the catch block
\* of a call in which a stage throws writes its recommendations into the
\* insights section also when skipInsights is set; the sentiment,
\* actionItems and topics sections of the stages that are not skipped are
\* the same as when no flag is set (the insights section is generated from
\* the result as it stands, with the defaults of the skipped stages).
C11_SkipFlags ==
  /\ []skippedStagesAtDefaultOrFallback
  /\ [][sameAsWithoutFlags({"sentiment", "actions", "topics"})]_vars

\* a call that skips the sentiment stage alone settles after the call
\* without flags on the same text: its sentiment section is the default,
\* its topics are those of the text and its insights are generated
C11_Witness ==
  /\ op = "processText"
  /\ ret.call.afterDefault
  /\ ret.call.options = optNoSentiment
  /\ ret.call.ran = {"actions", "topics", "insights"}
  /\ ret.value.sentiment = defaultSection("sentiment")
  /\ ret.value.topics # defaultSection("topics")
  /\ ret.value.insights # defaultSection("insights")

\* the two ways in which the statement of C11 fails: the catch block writes
\* into the insights section of a call that skips the insight stage, and the
\* insights generated without the sentiment stage are not those generated
\* with it
C11_FallbackInSkippedInsights ==
  /\ op = "processText"
  /\ ret.status = "fulfilled"
  /\ ret.call.options.skipInsights
  /\ ret.value.insights.recommendations = fallbackRecommendations

C11_InsightsFromDefaults ==
  /\ C11_Witness
  /\ ret.value.insights.mood = "neutral"

\* C13: A custom pattern registered with addCustomPattern while a
\* processText call is under way (after it started and before it returned)
\* contributes no matches to that call's actionItems: no entry of the
\* returned actionItems.patterns names a pattern that was added to the
\* registry meanwhile.
C13_NoMatchesFromLaterPattern ==
  (op = "processText" /\ ret.status = "fulfilled") =>
    \A k \in 1..Len(ret.value.actionItems.patterns) :
      ret.value.actionItems.patterns[k].pattern \notin ret.call.registered

\* processText(text, options) with no other call and no registration during
\* its run, on the given registry: the result but for processingTime, <<>>
\* if it does not return
RECURSIVE aloneFrom(_, _, _, _)
aloneFrom(call, k, result, registry) ==
  With(runFrom(call, k, result, registry, "none"), LAMBDA out :
    CASE out.kind = "return" -> out.call.result
      [] out.kind = "hang" -> <<>>
      [] out.kind = "await" ->
           aloneFrom(out.call, out.call.pc,
                     withSection(out.call.result, Stages[out.call.pc],
                                 out.call.pending.value),
                     out.registry))

alone(text, options, registry) ==
  With(newCall(text, options, "", FALSE), LAMBDA call :
    aloneFrom(call, 0, call.result, registry))

\* C14: Concurrent analysis is safe. With no registration call, a
\* processText call that was under way together with other calls,
\* interleaved with them at the awaits, returns the result (apart from
\* processingTime and timestamp) that the same call returns when it runs
\* alone on the engine, the regex objects being shared.
C14_ConcurrentSameAsAlone ==
  (op = "processText" /\ ret.call.overlapped) =>
    /\ ret.status = "fulfilled"
    /\ withoutClock(ret.value)
         = withoutClock(alone(ret.call.text, ret.call.options, initialPatterns))

\* a call with every stage settles that was under way together with
\* another call while the action stage of one of them ran, on a text in
\* which two of the shared regexes match
C14_Witness ==
  /\ op = "processText"
  /\ ret.call.overlapped
  /\ ret.call.text = txtWeMust
  /\ ret.call.ran = {"sentiment", "actions", "topics", "insights"}
  /\ Len(ret.value.actionItems.patterns) > 0
  /\ Len(calls) > 0

\* C16: Empty input. A processText call on the empty string with no
\* options, in which no component is made to throw, is fulfilled with a
\* result that has wordCount = 0 and sentenceCount = 0, sentiment.label =
\* neutral with score 0 and confidence 0, actionItems.totalCount = 0 with
\* empty items, and topics.primary = []: the four stages have run and none
\* of them has thrown on the empty input.
C16_EmptyInput ==
  ( /\ op = "processText"
    /\ ret.call.text = txtEmpty
    /\ noFlag(ret.call.options)
    /\ ret.call.thrown = "none" )
  => /\ ret.status = "fulfilled"
     /\ ret.call.ran = {"sentiment", "actions", "topics", "insights"}
     /\ ret.value.wordCount = 0
     /\ ret.value.sentenceCount = 0
     /\ ret.value.sentiment.label = "neutral"
     /\ ret.value.sentiment.score = 0
     /\ ret.value.sentiment.confidence = 0
     /\ ret.value.actionItems.totalCount = 0
     /\ ret.value.actionItems.items = <<>>
     /\ ret.value.topics.primary = <<>>

\* the call on the empty string has settled on an engine with a custom
\* pattern in its registry
C16_Witness ==
  /\ op = "processText"
  /\ ret.status = "fulfilled"
  /\ ret.call.text = txtEmpty
  /\ ret.call.thrown = "none"
  /\ ret.call.ran = {"sentiment", "actions", "topics", "insights"}
  /\ ret.value.insights.recommendations # <<>>
  /\ Len(patterns) > Len(initialPatterns)

\* the place of a stage in the order of the try block
stageIndex(stage) == CHOOSE k \in 1..Len(Stages) : Stages[k] = stage

\* C27: Fallback content. When stage k of processText throws, the returned
\* result has insights.recommendations equal to the three generic non-empty
\* strings and processingTime set to the elapsed time read in the catch
\* block; the sections of stage k and of every later stage are at their
\* defaults (the recommendations apart) and the sections of the stages that
\* completed before k hold the values their components computed.
C27_FallbackContent ==
  ( /\ op = "processText"
    /\ ret.status = "fulfilled"
    /\ \E k \in 1..Len(Stages) : ret.call.thrown = Stages[k] )
  => \E k \in {stageIndex(ret.call.thrown)},
        call \in {newCall(ret.call.text, ret.call.options, "", FALSE)} :
       /\ ret.value.insights.recommendations = fallbackRecommendations
       /\ Len(ret.value.insights.recommendations) = 3
       /\ \A r \in 1..3 : ret.value.insights.recommendations[r] # ""
       /\ ret.value.processingTime \in ElapsedTimes
       /\ \A j \in k..Len(Stages) :
            sectionOf(ret.value, Stages[j]) =
              IF Stages[j] = "insights"
              THEN [defaultSection("insights") EXCEPT
                      !.recommendations = fallbackRecommendations]
              ELSE defaultSection(Stages[j])
       /\ ("sentiment" \in ret.call.ran /\ k > 1)
            => ret.value.sentiment = analyze(call.words)
       /\ ("actions" \in ret.call.ran /\ k > 2 /\ ~ret.call.sawRegistration)
            => ret.value.actionItems = detect(call.result.processedText, patterns).value
       /\ ("topics" \in ret.call.ran /\ k > 3)
            => ret.value.topics = extract(call.result.processedText, call.words)

\* C27 witness: the topic stage throws in a call on "Urgent   we must fix it
\* now!" with every stage: the sentiment and the action items are there, the
\* topics are empty, and the elapsed time is 7
C27_Witness ==
  /\ op = "processText"
  /\ ret.status = "fulfilled"
  /\ ret.call.thrown = "topics"
  /\ ret.call.text = txtWeMust
  /\ ret.call.ran = {"sentiment", "actions", "topics"}
  /\ Len(ret.value.actionItems.items) >= 1
  /\ ret.value.topics = defaultSection("topics")
  /\ ret.value.insights.mood = "neutral"
  /\ ret.value.insights.recommendations = fallbackRecommendations
  /\ ret.value.processingTime = 7
====
